---- MODULE Spec2Model ----
(***************************************************************************)
(* Model of the order mutation engine and the settlement saga of           *)
(* orders-service (src/src/orders/orders.service.ts): updateOrder,         *)
(* updateStatus, assignMaster and syncCashReceipt, run by concurrent       *)
(* request handlers against one order row of the store and the cash        *)
(* ledger service.                                                         *)
(*                                                                         *)
(* Status names are transliterated: Waiting = 'Ожидает', Accepted =        *)
(* 'Принял', Done = 'Готово', Refused = 'Отказ', NotAnOrder = 'Незаказ';   *)
(* cash tags: NotSent = 'Не отправлено', Sent = 'Отправлено', SyncError =  *)
(* 'Ошибка синхронизации'.                                                 *)
(***************************************************************************)
EXTENDS Integers, Sequences, FiniteSets, TLC

\* ------------------------------------------------------------- bounds
\* number of request handlers that may run (and interleave)
NumReq == 2

Req == 1..NumReq

\* ------------------------------------------------------ absent values
\* a key that is absent from a payload (JS undefined) / an explicit null,
\* for numeric and for string fields
Undef == -1
Null == -2
UndefS == "undefined"
NullS == "null"

\* JS truthiness of a nullable number (order.masterId, updated.masterChange)
Truthy(x) == x # Null /\ x # Undef /\ x # 0

\* `x !== undefined && x !== null` for a numeric and for a string key
Given(x) == x # Undef /\ x # Null
GivenS(x) == x # UndefS /\ x # NullS

\* `x || 0`, and the number JS arithmetic makes of null
OrZero(x) == IF Truthy(x) THEN x ELSE 0
ToNumber(x) == IF x = Null THEN 0 ELSE x

\* ---------------------------------------------------------- constants
\* variant: one more attempt
maxRetries_Four == 3 + 1

maxRetries == 3

terminalStatuses == {"Done", "Refused", "NotAnOrder"}

\* the status ladder of the list query, and the eight statuses
\* (EnRoute = 'В пути', InProgress = 'В работе', UnderRevision = 'Модерн')
activeStatuses ==
  <<"Waiting", "Accepted", "EnRoute", "InProgress", "UnderRevision">>

Statuses == {activeStatuses[i] : i \in 1..Len(activeStatuses)} \cup terminalStatuses

\* the status createOrder gives an order
InitialStatus == "Waiting"

\* the one order of the store, and an id that names no order
OrderId == 1
MissingId == 2

Operator == [role |-> "operator", userId |-> 10]
Master1 == [role |-> "master", userId |-> 1]
Users == {Operator, Master1}

\* ------------------------------------------------------------ payloads
EmptyDto ==
  [statusOrder |-> UndefS, city |-> UndefS, masterId |-> Undef,
   masterChange |-> Undef, closingData |-> Undef, result |-> Undef,
   expenditure |-> Undef, clean |-> Undef, bsoDoc |-> UndefS,
   partner |-> UndefS, comment |-> UndefS, cashSubmissionStatus |-> UndefS]

\* the UpdateOrderDto payloads the operator sends
Payloads ==
  { [EmptyDto EXCEPT !.statusOrder = "Done"],
    [EmptyDto EXCEPT !.city = "B"],
    [EmptyDto EXCEPT !.masterId = 2, !.city = "C"] }

\* the status values the operator sends to updateStatus
StatusInputs == {"Done"}

\* the calls the handlers are driven with: the operator's payloads and
\* status on the order, one call of each handler by the master (the
\* masterChange payload, the Accepted status), and one call of each handler
\* with the unknown id
UpdateOrderCalls ==
  { [dto |-> d, user |-> Operator, id |-> OrderId] : d \in Payloads }
  \cup { [dto |-> [EmptyDto EXCEPT !.masterChange = 5],
          user |-> Master1, id |-> OrderId] }
  \cup { [dto |-> [EmptyDto EXCEPT !.statusOrder = "Done"],
          user |-> Operator, id |-> MissingId] }

UpdateStatusCalls ==
  { [status |-> st, user |-> Operator, id |-> OrderId] : st \in StatusInputs }
  \cup { [status |-> "Accepted", user |-> Master1, id |-> OrderId] }
  \cup { [status |-> "Done", user |-> Operator, id |-> MissingId] }

AssignMasterCalls ==
  { [masterId |-> 2, id |-> OrderId], [masterId |-> 2, id |-> MissingId] }

NoRow ==
  [statusOrder |-> NullS, closingData |-> Null, masterId |-> Null,
   masterChange |-> Null, city |-> NullS, cashSubmissionStatus |-> NullS,
   cashSubmissionDate |-> Null, cashSubmissionAmount |-> Null,
   result |-> Null, expenditure |-> Null, clean |-> Null, bsoDoc |-> NullS,
   partner |-> NullS, comment |-> NullS, cashReceiptDoc |-> NullS]

NoReq ==
  [op |-> "none", id |-> 0, dto |-> EmptyDto, status |-> UndefS,
   user |-> Operator, masterId |-> Undef]

\* --------------------------------------------- callers, table, queries
\* AuthUser.cities is optional: absent, or a list (possibly empty)
NoCities == [defined |-> FALSE, list |-> {}]
CityList(cs) == [defined |-> TRUE, list |-> cs]

NoUser == [role |-> "none", userId |-> 0, cities |-> NoCities]

\* the callers of getOrders and getOrder: an operator, two masters, and a
\* director with each kind of city list
QueryUsers ==
  { [role |-> "operator", userId |-> 10, cities |-> NoCities],
    [role |-> "master", userId |-> 1, cities |-> NoCities],
    [role |-> "master", userId |-> 2, cities |-> NoCities] }
  \cup { [role |-> "director", userId |-> 20, cities |-> c]
          : c \in {NoCities, CityList({}), CityList({"A"}), CityList({"A", "B"})} }

\* the orders table as the list and the fetch by id read it: the columns the
\* WHERE clause and the RBAC checks use; texts are sequences of characters
Table ==
  { [id |-> 1, masterId |-> 1, city |-> "A", statusOrder |-> "Waiting",
     phone |-> <<"7", "1">>, clientName |-> <<"a">>, address |-> <<"x">>],
    [id |-> 2, masterId |-> 2, city |-> "B", statusOrder |-> "Done",
     phone |-> <<"7", "2">>, clientName |-> <<"b">>, address |-> <<"x", "2">>],
    [id |-> 3, masterId |-> Null, city |-> "C", statusOrder |-> "Waiting",
     phone |-> <<"7", "3">>, clientName |-> <<"a", "b">>, address |-> <<"y">>] }

\* ids getOrder is called with: the table's and one that names no order
FetchIds == {1, 2, 3, 4}

\* QueryOrdersDto: status (the names between the commas), city, masterId
\* and search; an absent filter is empty or undefined
NoQuery ==
  [status |-> << >>, city |-> UndefS, masterId |-> Undef, search |-> << >>]

Queries ==
  [status : {<< >>, <<"Waiting">>, <<"Waiting", "Done">>},
   city : {UndefS, "A", "B"},
   masterId : {Undef, 1, 2},
   search : {<< >>, <<"2">>, <<"a">>, <<"7">>}]

\* ------------------------------------------------ the list query's order
\* orders the list query sorts: the status, the meeting date and the close
\* date (null or a day number) of each
ListRows ==
  { [id |-> 1, statusOrder |-> "Waiting", dateMeeting |-> 2, closingData |-> Null],
    [id |-> 2, statusOrder |-> "Waiting", dateMeeting |-> 1, closingData |-> Null],
    [id |-> 3, statusOrder |-> "Waiting", dateMeeting |-> Null, closingData |-> Null],
    [id |-> 4, statusOrder |-> "Accepted", dateMeeting |-> 1, closingData |-> 5],
    [id |-> 5, statusOrder |-> "UnderRevision", dateMeeting |-> 3, closingData |-> Null],
    [id |-> 6, statusOrder |-> "Done", dateMeeting |-> 1, closingData |-> 1],
    [id |-> 7, statusOrder |-> "Refused", dateMeeting |-> 3, closingData |-> 2],
    [id |-> 8, statusOrder |-> "NotAnOrder", dateMeeting |-> 2, closingData |-> Null],
    [id |-> 9, statusOrder |-> "Archived", dateMeeting |-> 1, closingData |-> 3] }

\* the tables the list query runs on, and the page and limit of the query
ListTables == {t \in SUBSET ListRows : Cardinality(t) <= 4}

ListPages == {1, 2}

ListLimits == {2, 50}

\* ------------------------------------- updateOrder called on its own
\* stored rows the call finds: open or closed, assigned or not, with or
\* without the financial fields
StoredRows ==
  { [statusOrder |-> st[1], closingData |-> st[2], masterId |-> m,
     masterChange |-> 0, city |-> "A", cashSubmissionStatus |-> "NotSent",
     cashSubmissionDate |-> Null, cashSubmissionAmount |-> Null,
     result |-> fin[1], expenditure |-> fin[2], clean |-> fin[3],
     bsoDoc |-> "old", partner |-> "no", comment |-> "note",
     cashReceiptDoc |-> NullS]
    : st \in {<<"Waiting", Null>>, <<"Done", 1>>},
      m \in {Null, 1},
      fin \in {<<Null, Null, Null>>, <<20, 3, 17>>} }

\* a key of the payload with a value: an explicit null or a proper value
FieldValues ==
  { <<"statusOrder", NullS>>, <<"statusOrder", "Done">>,
    <<"statusOrder", "Accepted">>,
    <<"city", NullS>>, <<"city", "B">>,
    <<"masterId", Null>>, <<"masterId", 2>>,
    <<"masterChange", Null>>, <<"masterChange", 5>>,
    <<"closingData", Null>>, <<"closingData", 3>>,
    <<"result", Null>>, <<"result", 10>>,
    <<"expenditure", Null>>, <<"expenditure", 4>>,
    <<"clean", Null>>, <<"clean", 99>>,
    <<"bsoDoc", NullS>>, <<"bsoDoc", "doc">>,
    <<"partner", NullS>>, <<"partner", "yes">>,
    <<"comment", NullS>>, <<"comment", "c">>,
    <<"cashSubmissionStatus", NullS>>, <<"cashSubmissionStatus", "Sent">> }

WithKey(dto, fv) == [dto EXCEPT ![fv[1]] = fv[2]]

\* the payloads with at most MaxKeys keys (MaxKeys is 1, 2 or 3)
MaxKeys == 2

PayloadsUpTo(n) ==
  {EmptyDto}
  \cup (IF n >= 1 THEN {WithKey(EmptyDto, a) : a \in FieldValues} ELSE {})
  \cup (IF n >= 2
        THEN {WithKey(WithKey(EmptyDto, a), b) : a \in FieldValues, b \in FieldValues}
        ELSE {})
  \cup (IF n >= 3
        THEN {WithKey(WithKey(WithKey(EmptyDto, a), b), c)
                : a \in FieldValues, b \in FieldValues, c \in FieldValues}
        ELSE {})

FnPayloads == PayloadsUpTo(MaxKeys)

\* the payloads that close an order of StoredRows and so start the settlement
\* saga: Done with a positive masterChange, and the further keys
ClosePayloads ==
  { [d EXCEPT !.statusOrder = "Done", !.masterChange = 5]
      : d \in PayloadsUpTo(MaxKeys - 1) }

\* the CreateOrderDto payloads: the city and the optional statusOrder, which
\* @IsIn keeps to the eight statuses
CreatePayloads ==
  { [EmptyDto EXCEPT !.city = "A", !.statusOrder = st]
      : st \in {UndefS, NullS, "Accepted"} }

\* the `status` of the body of PATCH :id/status: any string
StatusStrings == {"Accepted", "Done", "Archived"}

\* the time the request is made and the later times new Date() may read
Times == {4, 5}

\* no call made on its own yet, and nothing returned
NoCall ==
  [op |-> "none", user |-> NoUser, id |-> 0, row |-> NoRow, dto |-> EmptyDto,
   reqTime |-> 0, now |-> 0, query |-> NoQuery, status |-> UndefS,
   table |-> {}, pageNo |-> 0, limit |-> 0, doc |-> UndefS]

NoRet == [outcome |-> "none", row |-> NoRow, orders |-> {}, page |-> << >>]

\* ------------------------------------------------ filter-options cache
\* FILTER_OPTIONS_CACHE_TTL is 60 * 1000 ms; the model's time unit is 30 s
FILTER_OPTIONS_CACHE_TTL == 2

\* the instants Date.now() reads in the model
Instants == 0..3

\* the slots of the getFilterOptions calls in progress: one call at a time,
\* with which the creates, the updates, the clock and the cleanup interleave
FoCalls == {1}

\* the number of entries the model's cache holds before it evicts
\* (FILTER_OPTIONS_CACHE_MAX_SIZE, 100 in the code, scaled to the number of
\* scopes of the model)
CacheMaxSize == 2

\* the callers of getFilterOptions
FoUsers ==
  { [role |-> "operator", userId |-> 10, cities |-> NoCities],
    [role |-> "master", userId |-> 1, cities |-> NoCities],
    [role |-> "director", userId |-> 20, cities |-> CityList({"A"})] }

\* city names in the order Array.prototype.sort gives them
CityNames == <<"A", "A,B", "B", "C">>

\* user.cities.sort().join(',')
RECURSIVE JoinSorted(_, _)
JoinSorted(cs, i) ==
  IF i > Len(CityNames) THEN ""
  ELSE LET rest == JoinSorted(cs, i + 1)
       IN IF CityNames[i] \notin cs THEN rest
          ELSE IF rest = "" THEN CityNames[i]
          ELSE CityNames[i] \o "," \o rest

\* the ids of the masters, as the template string prints them
IdText == [id \in {1, 2} |-> IF id = 1 THEN "1" ELSE "2"]

\* getFilterOptions: cacheKey
CacheKey(user) ==
  IF user.role = "master" THEN "master_" \o IdText[user.userId]
  ELSE IF user.role = "director" /\ user.cities.defined
          /\ Cardinality(user.cities.list) > 0
  THEN "director_" \o JoinSorted(user.cities.list, 1)
  ELSE "global"

\* callers whose scopes meet in one key or differ in one field: two masters,
\* the director of the cities A and B, the director of the one city whose
\* name is "A,B", and an operator
ScopeUsers ==
  { [role |-> "operator", userId |-> 10, cities |-> NoCities],
    [role |-> "master", userId |-> 1, cities |-> NoCities],
    [role |-> "master", userId |-> 2, cities |-> NoCities],
    [role |-> "director", userId |-> 20, cities |-> CityList({"A", "B"})],
    [role |-> "director", userId |-> 21, cities |-> CityList({"A,B"})] }

CacheKeys == {CacheKey(u) : u \in FoUsers \cup ScopeUsers}

\* the columns of the orders table the three DISTINCT queries read
FoInitTable ==
  { [id |-> 1, masterId |-> 1, city |-> "A", rk |-> "rk1",
     typeEquipment |-> "tv"] }

\* the row createOrder adds, and the city updateOrder moves order 1 to
FoNewRow ==
  [id |-> 2, masterId |-> 2, city |-> "B", rk |-> "rk2", typeEquipment |-> "tv"]

FoNewCity == "C"

\* getFilterOptions: the RBAC conditions of the three queries
FoWhere(user, o) ==
  /\ user.role = "master" => o.masterId = user.userId
  /\ (user.role = "director" /\ user.cities.defined
       /\ Cardinality(user.cities.list) > 0)
        => o.city \in user.cities.list

\* the `result` object: each list holds the distinct non-null values of its
\* column in ascending order, which the set of the values stands for
FoResult(user, table) ==
  LET visible == {o \in table : FoWhere(user, o)}
  IN [k \in {"rks", "typeEquipments", "cities"} |->
        CASE k = "rks" -> {o.rk : o \in {v \in visible : v.rk # NullS}}
          [] k = "typeEquipments" ->
               {o.typeEquipment : o \in {v \in visible : v.typeEquipment # NullS}}
          [] k = "cities" -> {o.city : o \in {v \in visible : v.city # NullS}}]

\* the data returned when the last error is a timeout
FoTimeoutData == [k \in {"rks", "typeEquipments"} |-> {}]

FoNoData == [k \in {} |-> {}]

\* how one run of the query set ends: with rows, with the 5 s timeout, with
\* another transient error (connection reset), or with any other error
FoAttemptResults == {"rows", "timeout", "reset", "fatal"}

\* variant: every failure is retried
isRetryableError_Any(err) == TRUE

isRetryableError(err) == err \in {"timeout", "reset"}

FoMaxAttempts == 3

\* a getFilterOptions call that is not in progress
FoNoCall ==
  [pc |-> "idle", user |-> NoUser, key |-> "", attempt |-> 0,
   result |-> FoNoData, waits |-> << >>, onlyTimeouts |-> TRUE,
   failure |-> "none"]

\* no getFilterOptions call has returned yet
FoNoRet ==
  [outcome |-> "none", user |-> NoUser, key |-> "", data |-> FoNoData,
   cached |-> FALSE, error |-> "none", queries |-> 0, waits |-> << >>,
   onlyTimeouts |-> FALSE]

\* history of a cache key: nothing stored under it yet
FoNoFill ==
  [filled |-> FALSE, data |-> FoNoData, time |-> 0, evicted |-> FALSE,
   user |-> NoUser]

VARIABLES
  orders,        \* the order store: the row of order OrderId
  ledger,        \* entries booked by the cash ledger service
  clock,         \* logical time read by new Date()
  pc,            \* position of each request handler
  req,           \* arguments of each request
  snap,          \* `order`: the row a request read before its write
  updated,       \* `updated`: the row a request's transaction returned
  needsCashSync, \* `needsCashSync` of each request
  attempt,       \* `attempt` of the retry loop of syncCashReceipt
  delays,        \* the waits (ms) the retry loop of this run has made so far
  txOpen,        \* the request's database transaction is open
  txStale,       \* a row write committed after the transaction's snapshot
  outcome,       \* how the request ended
  notified,      \* notifications the request dispatched
  preTrans,      \* history: stored row just before the request's own write
  writeLog,      \* history: masterId stored at each write a master's request made
  posted,        \* history: a ledger POST of the request succeeded
  interfered,    \* history: another request wrote the row after the commit
  sagaEnd,       \* history: none, running, or the last saga write the request made
  transitions,   \* history: committed non-Done -> Done writes, masterChange > 0
  markOk,        \* history: the request's sync-error write was stored
  data,          \* `data` / `updateData`: the keys the request's write sets
  order0,        \* history: the row before any request ran
  args,          \* the arguments of the last call made on its own (SpecFn)
  ret,           \* what that call returned
  promises,      \* the notification promises that call dispatched, each
                 \* pending, fulfilled or rejected
  filterOptionsCache, \* the Map, as the sequence of its entries in insertion order
  foTable,       \* the orders table as the filter-options queries read it
  foNow,         \* Date.now()
  foCall,        \* the getFilterOptions calls in progress: position and locals
                 \* (onlyTimeouts, history: no attempt failed but by timeout;
                 \* failure, history: the error the last retry followed;
                 \* both histories end when the queries return rows)
  foRet,         \* the response a getFilterOptions call returned in the last step
  foFill,        \* history: what was last stored under each key and when, until
                 \* an invalidation or the end of its TTL; whether it was evicted
  foCreate       \* position of the createOrder call of the cache specification

vars ==
  <<orders, ledger, clock, pc, req, snap, updated, needsCashSync, attempt,
    delays,
    txOpen, txStale, outcome, notified, preTrans, writeLog, posted,
    interfered, sagaEnd, transitions, markOk, data, order0, args, ret,
    promises, filterOptionsCache, foTable, foNow, foCall, foRet, foFill, foCreate>>

\* the variables of the filter-options cache
cacheVars ==
  <<filterOptionsCache, foTable, foNow, foCall, foRet, foFill, foCreate>>

\* the variables of the calls made on their own, and of the request handlers
fnVars == <<args, ret, promises>>

handlerVars ==
  <<orders, ledger, clock, pc, req, snap, updated, needsCashSync, attempt,
    delays,
    txOpen, txStale, outcome, notified, preTrans, writeLog, posted,
    interfered, sagaEnd, transitions, markOk, data, order0>>

\* ------------------------------------------------- pure helper functions
\* updateOrder: the `updateData` object built from the payload and the row
\* read in the transaction; a field left Undef is absent from updateData
cityChangedOf(dto, order) ==
  dto.city # UndefS /\ dto.city # NullS /\ dto.city # order.city

\* updateOrder: updateData.clean, computed from the payload: a side that the
\* payload leaves out is read from updateData, where only the payload's own
\* values are, and so counts as 0
CleanData(dto) ==
  IF Given(dto.result) \/ Given(dto.expenditure)
  THEN LET updResult == IF Given(dto.result) THEN dto.result ELSE Undef
           updExpenditure ==
             IF Given(dto.expenditure) THEN dto.expenditure ELSE Undef
           finalResult ==
             IF dto.result # Undef THEN dto.result ELSE OrZero(updResult)
           finalExpenditure ==
             IF dto.expenditure # Undef THEN dto.expenditure
             ELSE OrZero(updExpenditure)
       IN ToNumber(finalResult) - ToNumber(finalExpenditure)
  ELSE IF Given(dto.clean) THEN dto.clean ELSE Undef

BuildUpdateData(dto, order, now) ==
  [statusOrder |->
     IF dto.statusOrder # UndefS /\ dto.statusOrder # NullS
     THEN dto.statusOrder ELSE UndefS,
   city |->
     IF dto.city # UndefS /\ dto.city # NullS THEN dto.city ELSE UndefS,
   masterId |->
     IF dto.masterId # Undef THEN dto.masterId
     ELSE IF cityChangedOf(dto, order) /\ Truthy(order.masterId) THEN Null
     ELSE Undef,
   masterChange |->
     IF dto.masterChange # Undef /\ dto.masterChange # Null
     THEN dto.masterChange ELSE Undef,
   closingData |->
     IF dto.closingData # Undef /\ dto.closingData # Null THEN dto.closingData
     ELSE IF dto.statusOrder # UndefS /\ dto.statusOrder # NullS
             /\ dto.statusOrder \in terminalStatuses
             /\ dto.closingData = Undef
     THEN now ELSE Undef,
   result |-> IF Given(dto.result) THEN dto.result ELSE Undef,
   expenditure |-> IF Given(dto.expenditure) THEN dto.expenditure ELSE Undef,
   clean |-> CleanData(dto),
   bsoDoc |-> dto.bsoDoc,
   partner |-> dto.partner,
   comment |-> IF GivenS(dto.comment) THEN dto.comment ELSE UndefS,
   cashSubmissionStatus |->
     IF GivenS(dto.cashSubmissionStatus) THEN dto.cashSubmissionStatus
     ELSE UndefS]

\* variant: a key that is not in the data object is written as null
ApplyData_AbsentAsNull(row, upd) ==
  [row EXCEPT
     !.statusOrder = IF upd.statusOrder # UndefS THEN upd.statusOrder ELSE @,
     !.city = IF upd.city # UndefS THEN upd.city ELSE @,
     !.masterId = IF upd.masterId # Undef THEN upd.masterId ELSE @,
     !.masterChange = IF upd.masterChange # Undef THEN upd.masterChange ELSE @,
     !.closingData = IF upd.closingData # Undef THEN upd.closingData ELSE @,
     !.result = IF upd.result # Undef THEN upd.result ELSE @,
     !.expenditure = IF upd.expenditure # Undef THEN upd.expenditure ELSE @,
     !.clean = IF upd.clean # Undef THEN upd.clean ELSE @,
     !.bsoDoc = IF upd.bsoDoc # UndefS THEN upd.bsoDoc ELSE @,
     !.partner = IF upd.partner # UndefS THEN upd.partner ELSE @,
     !.comment = IF upd.comment # UndefS THEN upd.comment ELSE NullS,
     !.cashSubmissionStatus =
       IF upd.cashSubmissionStatus # UndefS THEN upd.cashSubmissionStatus ELSE @]

\* prisma order.update: only the keys present in its data object are written
ApplyData(row, upd) ==
  [row EXCEPT
     !.statusOrder = IF upd.statusOrder # UndefS THEN upd.statusOrder ELSE @,
     !.city = IF upd.city # UndefS THEN upd.city ELSE @,
     !.masterId = IF upd.masterId # Undef THEN upd.masterId ELSE @,
     !.masterChange = IF upd.masterChange # Undef THEN upd.masterChange ELSE @,
     !.closingData = IF upd.closingData # Undef THEN upd.closingData ELSE @,
     !.result = IF upd.result # Undef THEN upd.result ELSE @,
     !.expenditure = IF upd.expenditure # Undef THEN upd.expenditure ELSE @,
     !.clean = IF upd.clean # Undef THEN upd.clean ELSE @,
     !.bsoDoc = IF upd.bsoDoc # UndefS THEN upd.bsoDoc ELSE @,
     !.partner = IF upd.partner # UndefS THEN upd.partner ELSE @,
     !.comment = IF upd.comment # UndefS THEN upd.comment ELSE @,
     !.cashSubmissionStatus =
       IF upd.cashSubmissionStatus # UndefS THEN upd.cashSubmissionStatus ELSE @]

\* updateStatus: the `data` object
StatusData(status, now) ==
  [EmptyDto EXCEPT
     !.statusOrder = status,
     !.closingData = IF status \in terminalStatuses THEN now ELSE Undef]

\* the RBAC check of updateOrder and updateStatus
AccessDenied(user, order) ==
  user.role = "master" /\ order.masterId # user.userId

\* needsCashSync of updateOrder (from the payload and the written row) and
\* of updateStatus (from the row read before the transaction)
NeedsCashSyncUO(dto, upd) ==
  dto.statusOrder = "Done" /\ Truthy(upd.masterChange) /\ upd.masterChange > 0

NeedsCashSyncUS(status, order) ==
  status = "Done" /\ Truthy(order.masterChange) /\ order.masterChange > 0

\* syncCashReceipt: amount of the ledger entry and the rows it writes
masterChangeAmount(order) ==
  IF Truthy(order.masterChange) THEN order.masterChange ELSE 0

\* the wait before the retry that follows failed attempt number `attempt`
delayMs(n) == (2 ^ (n - 1)) * 500

\* variant: the sent mark without the amount
SentData_NoAmount(row, order, now) ==
  [row EXCEPT !.cashSubmissionStatus = "Sent",
              !.cashSubmissionDate = now]

SentData(row, order, now) ==
  [row EXCEPT !.cashSubmissionStatus = "Sent",
              !.cashSubmissionDate = now,
              !.cashSubmissionAmount = masterChangeAmount(order)]

\* variant: the failure write stamps the date and leaves the tag
SyncErrorData_DateOnly(row, now) ==
  [row EXCEPT !.cashSubmissionDate = now]

SyncErrorData(row, now) ==
  [row EXCEPT !.cashSubmissionStatus = "SyncError",
              !.cashSubmissionDate = now]

\* variant: the compensation writes the whole row read at the start back
RevertData_WholeRow(row, order) == order

\* the compensating write of updateOrder and updateStatus
RevertData(row, order) ==
  [row EXCEPT !.statusOrder = order.statusOrder,
              !.closingData = order.closingData]

\* the Serializable transaction of updateStatus: the duplicate-status check
\* and the store's refusal of an update of a row changed since the snapshot
StatusAlreadySet(current, status) == current.statusOrder = status

\* variant: the transaction runs ReadCommitted and is never refused
SerializationFailure_ReadCommitted(stale) == FALSE

SerializationFailure(stale) == stale

\* variant: the saga is called inside the transaction callback
CommitTx_StillOpen(open, r) == open

\* the transaction callback has returned: the transaction commits and closes
CommitTx(open, r) == [open EXCEPT ![r] = FALSE]

\* where a handler goes after its transaction, and after a failed saga
AfterCommit(op, needs) ==
  IF needs THEN "sync_post"
  ELSE IF op = "updateOrder" THEN "uo_notify" ELSE "done"

AfterSyncSuccess(op) == IF op = "updateOrder" THEN "uo_notify" ELSE "done"

\* variant: the error is thrown without the compensating write
AfterSyncFailure_NoCompensation(op) == "done"

AfterSyncFailure(op) == "compensate"

\* variant: after the compensating write updateOrder goes on to its
\* notifications
AfterCompensation_ThenNotify(op) ==
  IF op = "updateOrder" THEN "uo_notify" ELSE "done"

\* after the compensating write the handler throws
AfterCompensation(op) == "done"

\* sendUpdateNotifications: the kinds dispatched (city change, accepted,
\* closed, refusal) for the fields of the model
UpdateNotifications(order, dto) ==
  (IF cityChangedOf(dto, order) THEN {"city-change"} ELSE {})
  \cup (IF dto.statusOrder = "Accepted" /\ order.statusOrder # "Accepted"
        THEN {"order-accepted"} ELSE {})
  \cup (IF dto.statusOrder = "Done" /\ order.statusOrder # "Done"
        THEN {"order-closed"} ELSE {})
  \cup (IF dto.statusOrder = "Refused" /\ order.statusOrder # "Refused"
        THEN {"order-refusal"} ELSE {})

\* createOrder: the notifications dispatched (operatorNameId is required)
CreateNotifications == {"new-order", "ui-new-order", "ui-operator-order"}

\* createOrder: the row prisma.order.create stores
CreatedRow(dto) ==
  [NoRow EXCEPT
     !.statusOrder = IF GivenS(dto.statusOrder) THEN dto.statusOrder
                     ELSE InitialStatus,
     !.city = dto.city,
     !.masterChange = 0,
     !.cashSubmissionStatus = "NotSent"]

\* variant: the promise is awaited and its rejection reaches the caller
fireAndForgetNotification_Awaited(response, fulfilled) ==
  IF fulfilled THEN response ELSE [response EXCEPT !.outcome = "thrown"]

\* fireAndForgetNotification: .then and .catch only log, so the response of
\* the request stays what it was when the promise settles
fireAndForgetNotification(response, fulfilled) == response

\* the promises of the notifications dispatched, none settled yet
Dispatched(kinds) == {[kind |-> k, state |-> "pending"] : k \in kinds}

\* --------------------------------------------------- getOrders, getOrder
\* ILIKE '%pat%': pat occurs in text
Contains(text, pat) ==
  \E i \in 0..(Len(text) - Len(pat)) : SubSeq(text, i + 1, i + Len(pat)) = pat

\* parseInt(search, 10): the number the leading digits spell, or NaN
NaN == -1

DigitOf ==
  [c \in {"0", "1", "2", "3", "4", "5", "6", "7", "8", "9"} |->
     CASE c = "0" -> 0 [] c = "1" -> 1 [] c = "2" -> 2 [] c = "3" -> 3
       [] c = "4" -> 4 [] c = "5" -> 5 [] c = "6" -> 6 [] c = "7" -> 7
       [] c = "8" -> 8 [] c = "9" -> 9]

RECURSIVE ParsePrefix(_, _)
ParsePrefix(str, acc) ==
  IF str = << >> \/ Head(str) \notin DOMAIN DigitOf THEN acc
  ELSE ParsePrefix(Tail(str), acc * 10 + DigitOf[Head(str)])

ParseInt(str) ==
  IF str = << >> \/ Head(str) \notin DOMAIN DigitOf THEN NaN
  ELSE ParsePrefix(str, 0)

\* the RBAC conditions pushed first
RbacConds(user, o) ==
  /\ user.role = "master" => o.masterId = user.userId
  /\ (user.role = "director" /\ user.cities.defined
       /\ Cardinality(user.cities.list) > 0)
        => o.city \in user.cities.list

\* the caller's filters
FilterConds(q, o) ==
  /\ Len(q.status) >= 1 => \E i \in 1..Len(q.status) : o.statusOrder = q.status[i]
  /\ q.city # UndefS => o.city = q.city
  /\ Truthy(q.masterId) => o.masterId = q.masterId

\* the search predicate: one parenthesised OR group
SearchCond(q, o) ==
  LET searchAsNumber == ParseInt(q.search)
      text == \/ Contains(o.phone, q.search)
              \/ Contains(o.clientName, q.search)
              \/ Contains(o.address, q.search)
  IN IF searchAsNumber # NaN /\ searchAsNumber > 0 /\ searchAsNumber < 1000000
     THEN text \/ o.id = searchAsNumber
     ELSE text

\* variant: the search predicates joined to the others without parentheses
WhereClause_SearchUnparenthesised(user, q, o) ==
  IF q.search = << >> THEN RbacConds(user, o) /\ FilterConds(q, o)
  ELSE \/ RbacConds(user, o) /\ FilterConds(q, o) /\ Contains(o.phone, q.search)
       \/ Contains(o.clientName, q.search)
       \/ Contains(o.address, q.search)

\* whereConditions.join(' AND ')
WhereClause(user, q, o) ==
  /\ RbacConds(user, o)
  /\ FilterConds(q, o)
  /\ q.search # << >> => SearchCond(q, o)

\* the rows the list query selects (a page of them is returned)
GetOrders(user, q) == {o \in Table : WhereClause(user, q, o)}

\* getOrder: the two RBAC checks after the row is found
GetOrderDenied(user, o) ==
  \/ user.role = "master" /\ o.masterId # user.userId
  \/ user.role = "director" /\ user.cities.defined
     /\ o.city \notin user.cities.list

GetOrder(user, id) ==
  IF \A o \in Table : o.id # id
  THEN [NoRet EXCEPT !.outcome = "NotFound"]
  ELSE LET order == CHOOSE o \in Table : o.id = id
       IN IF GetOrderDenied(user, order)
          THEN [NoRet EXCEPT !.outcome = "Forbidden"]
          ELSE [NoRet EXCEPT !.outcome = "success", !.orders = {order}]

\* ------------------------------------------------- getOrders: ORDER BY
\* the first sort key: the CASE over status_order
StatusPriority(status) ==
  CASE status = "Waiting" -> 1
    [] status = "Accepted" -> 2
    [] status = "EnRoute" -> 3
    [] status = "InProgress" -> 4
    [] status = "UnderRevision" -> 5
    [] status \in {"Done", "Refused", "NotAnOrder"} -> 6
    [] OTHER -> 7

\* the second and third sort keys: date_meeting of the active statuses,
\* closing_data of the closed ones, NULL otherwise
MeetingKey(o) ==
  IF o.statusOrder \in {"Waiting", "Accepted", "EnRoute", "InProgress", "UnderRevision"}
  THEN o.dateMeeting ELSE Null

ClosingKey(o) ==
  IF o.statusOrder \in {"Done", "Refused", "NotAnOrder"}
  THEN o.closingData ELSE Null

\* x sorts before y under ASC NULLS LAST
AscNullsLast(x, y) ==
  \/ x # Null /\ y = Null
  \/ x # Null /\ y # Null /\ x < y

\* variant: DESC with the default place of the nulls, first
DescNullsLast_NullsFirst(x, y) ==
  \/ x = Null /\ y # Null
  \/ x # Null /\ y # Null /\ x > y

\* x sorts before y under DESC NULLS LAST
DescNullsLast(x, y) ==
  \/ x # Null /\ y = Null
  \/ x # Null /\ y # Null /\ x > y

\* row a sorts before row b under the ORDER BY clause
OrderByLess(a, b) ==
  LET pa == StatusPriority(a.statusOrder)
      pb == StatusPriority(b.statusOrder)
  IN \/ pa < pb
     \/ /\ pa = pb
        /\ \/ AscNullsLast(MeetingKey(a), MeetingKey(b))
           \/ /\ MeetingKey(a) = MeetingKey(b)
              /\ DescNullsLast(ClosingKey(a), ClosingKey(b))

\* the orders in which the store may return the rows: every arrangement of
\* them in which no row comes after a row it sorts before (rows with equal
\* keys come in any order)
OrderBy(rows) ==
  LET n == Cardinality(rows)
  IN { s \in [1..n -> rows] :
         /\ \A i, j \in 1..n : i # j => s[i] # s[j]
         /\ \A i, j \in 1..n : i < j => ~OrderByLess(s[j], s[i]) }

\* LIMIT limit OFFSET (page - 1) * limit
PageOf(sorted, pageNo, limit) ==
  LET skip == (pageNo - 1) * limit
      last == IF skip + limit < Len(sorted) THEN skip + limit ELSE Len(sorted)
  IN IF skip >= Len(sorted) THEN << >>
     ELSE [i \in 1..(last - skip) |-> sorted[skip + i]]

\* ------------------------------------------------------- history helpers
\* request q has committed its own write and has not yet ended
InSaga(q) == pc[q] \in {"sync_post", "sync_mark", "sync_fail", "compensate", "uo_notify"}

\* a row write by request r: every other open transaction's snapshot is now
\* stale, and every other request past its commit has been interfered with
StaleAfterWrite(r) ==
  [q \in Req |->
     IF q # r /\ txOpen[q] /\ req[q].op = "updateStatus" THEN TRUE
     ELSE txStale[q]]

InterferedAfterWrite(r) ==
  [q \in Req |-> IF q # r /\ InSaga(q) THEN TRUE ELSE interfered[q]]

LogWrite(r) ==
  IF req[r].user.role = "master"
  THEN [writeLog EXCEPT ![r] = @ \cup {orders[OrderId].masterId}]
  ELSE writeLog

LedgerCount(id) ==
  Cardinality({i \in 1..Len(ledger) : ledger[i].orderId = id})

\* ----------------------------------------------------------------- Init
\* one order as createOrder leaves it (status Waiting, not closed): assigned
\* to master 1 with or without a master change amount, or unassigned
InitRows ==
  { [statusOrder |-> "Waiting", closingData |-> Null, masterId |-> mm[1],
     masterChange |-> mm[2], city |-> "A", cashSubmissionStatus |-> "NotSent",
     cashSubmissionDate |-> Null, cashSubmissionAmount |-> Null,
     result |-> Null, expenditure |-> Null, clean |-> Null, bsoDoc |-> NullS,
     partner |-> NullS, comment |-> NullS, cashReceiptDoc |-> NullS]
    : mm \in {<<1, 0>>, <<1, 5>>, <<Null, 0>>} }

Init ==
  /\ orders \in [{OrderId} -> InitRows]
  /\ ledger = << >>
  /\ clock = 1
  /\ pc = [r \in Req |-> "idle"]
  /\ req = [r \in Req |-> NoReq]
  /\ snap = [r \in Req |-> NoRow]
  /\ updated = [r \in Req |-> NoRow]
  /\ needsCashSync = [r \in Req |-> FALSE]
  /\ attempt = [r \in Req |-> 0]
  /\ delays = [r \in Req |-> << >>]
  /\ txOpen = [r \in Req |-> FALSE]
  /\ txStale = [r \in Req |-> FALSE]
  /\ outcome = [r \in Req |-> "none"]
  /\ notified = [r \in Req |-> {}]
  /\ preTrans = [r \in Req |-> NoRow]
  /\ writeLog = [r \in Req |-> {}]
  /\ posted = [r \in Req |-> FALSE]
  /\ interfered = [r \in Req |-> FALSE]
  /\ sagaEnd = [r \in Req |-> "none"]
  /\ transitions = 0
  /\ markOk = [r \in Req |-> FALSE]
  /\ data = [r \in Req |-> EmptyDto]
  /\ order0 = orders[OrderId]
  /\ args = NoCall
  /\ ret = NoRet
  /\ promises = {}
  /\ filterOptionsCache = << >>
  /\ foTable = FoInitTable
  /\ foNow = 0
  /\ foCall = [c \in FoCalls |-> FoNoCall]
  /\ foRet = FoNoRet
  /\ foFill = [k \in CacheKeys |-> FoNoFill]
  /\ foCreate = "idle"

\* request slots are taken in order
MayStart(r) ==
  /\ pc[r] = "idle"
  /\ IF r = 1 THEN TRUE ELSE pc[r - 1] # "idle"

\* a committed write of the row by request r
WriteRow(r, row) ==
  /\ orders' = [orders EXCEPT ![OrderId] = row]
  /\ writeLog' = LogWrite(r)
  /\ txStale' = StaleAfterWrite(r)
  /\ interfered' = InterferedAfterWrite(r)

NoWrite == UNCHANGED <<orders, writeLog, txStale, interfered>>

\* the same for the last step of a request that ran the saga or the
\* notifications: what other requests did to it is no longer of interest
WriteRowLast(r, row) ==
  /\ orders' = [orders EXCEPT ![OrderId] = row]
  /\ writeLog' = LogWrite(r)
  /\ txStale' = StaleAfterWrite(r)
  /\ interfered' = [InterferedAfterWrite(r) EXCEPT ![r] = FALSE]

NoWriteLast(r) ==
  /\ UNCHANGED <<orders, writeLog, txStale>>
  /\ interfered' = [interfered EXCEPT ![r] = FALSE]

\* the request ends with outcome o
End(r, o) ==
  /\ pc' = [pc EXCEPT ![r] = "done"]
  /\ outcome' = [outcome EXCEPT ![r] = o]

\* variant: the check is made after the row was written
Rejected_AfterWrite(r, o) ==
  /\ End(r, o)
  /\ WriteRow(r, [orders[OrderId] EXCEPT !.comment = "rejected"])

\* NotFoundException / ForbiddenException thrown right after the read
Rejected(r, o) ==
  /\ End(r, o)
  /\ NoWrite

\* the handler's locals go out of scope when it returns or throws
DropLocals(r) ==
  /\ snap' = [snap EXCEPT ![r] = NoRow]
  /\ updated' = [updated EXCEPT ![r] = NoRow]
  /\ data' = [data EXCEPT ![r] = EmptyDto]
  /\ preTrans' = [preTrans EXCEPT ![r] = NoRow]
  /\ needsCashSync' = [needsCashSync EXCEPT ![r] = FALSE]
  /\ attempt' = [attempt EXCEPT ![r] = 0]
  /\ delays' = [delays EXCEPT ![r] = << >>]

KeepLocals ==
  UNCHANGED <<snap, updated, data, preTrans, needsCashSync, attempt, delays>>

Return(r, o) == End(r, o) /\ DropLocals(r)

\* a committed write that takes the order from another status into Done
\* with a positive masterChange
CountsAsTransition(before, after) ==
  before.statusOrder # "Done" /\ after.statusOrder = "Done"
  /\ Truthy(after.masterChange) /\ after.masterChange > 0

\* ---------------------------------------------------------- updateOrder
\* the call arrives; the transaction opens and reads the row (findUnique);
\* an unknown id and a master who is not assigned end the request
UO_Begin(r) ==
  /\ MayStart(r)
  /\ \E call \in UpdateOrderCalls :
       /\ req' = [req EXCEPT ![r] =
                    [NoReq EXCEPT !.op = "updateOrder", !.id = call.id,
                                  !.dto = call.dto, !.user = call.user]]
       /\ IF call.id # OrderId
          THEN /\ Rejected(r, "NotFound")
               /\ UNCHANGED <<snap, txOpen>>
          ELSE IF AccessDenied(call.user, orders[OrderId])
          THEN /\ Rejected(r, "Forbidden")
               /\ UNCHANGED <<snap, txOpen>>
          ELSE /\ snap' = [snap EXCEPT ![r] = orders[OrderId]]
               /\ txOpen' = [txOpen EXCEPT ![r] = TRUE]
               /\ pc' = [pc EXCEPT ![r] = "uo_write"]
               /\ NoWrite
               /\ UNCHANGED outcome
  /\ UNCHANGED <<ledger, clock, updated, needsCashSync, attempt, delays, notified,
                 preTrans, posted, sagaEnd, transitions, markOk, data, order0>>
  /\ UNCHANGED fnVars
  /\ UNCHANGED cacheVars

\* updateData is built from the payload and the row read, tx.order.update
\* writes it, and the transaction commits (ReadCommitted)
UO_Write(r) ==
  /\ pc[r] = "uo_write"
  /\ LET upd == BuildUpdateData(req[r].dto, snap[r], clock)
         row == ApplyData(orders[OrderId], upd)
         needs == NeedsCashSyncUO(req[r].dto, row)
     IN /\ WriteRow(r, row)
        /\ data' = [data EXCEPT ![r] = upd]
        /\ updated' = [updated EXCEPT ![r] = row]
        /\ preTrans' = [preTrans EXCEPT ![r] = orders[OrderId]]
        /\ needsCashSync' = [needsCashSync EXCEPT ![r] = needs]
        /\ attempt' = [attempt EXCEPT ![r] = IF needs THEN 1 ELSE @]
        /\ UNCHANGED delays
        /\ clock' = IF upd.closingData = clock THEN clock + 1 ELSE clock
        /\ transitions' =
             IF CountsAsTransition(orders[OrderId], row)
             THEN transitions + 1 ELSE transitions
        /\ sagaEnd' = [sagaEnd EXCEPT ![r] = IF needs THEN "running" ELSE @]
        /\ txOpen' = CommitTx(txOpen, r)
        /\ pc' = [pc EXCEPT ![r] = AfterCommit("updateOrder", needs)]
  /\ UNCHANGED <<ledger, req, snap, outcome, notified, posted, markOk, order0>>
  /\ UNCHANGED fnVars
  /\ UNCHANGED cacheVars

\* sendUpdateNotifications, then the success response
UO_Notify(r) ==
  /\ pc[r] = "uo_notify"
  /\ notified' = [notified EXCEPT ![r] = UpdateNotifications(snap[r], req[r].dto)]
  /\ Return(r, "success")
  /\ NoWriteLast(r)
  /\ UNCHANGED <<ledger, clock, req, txOpen, posted, sagaEnd, transitions,
                 markOk, order0>>
  /\ UNCHANGED fnVars
  /\ UNCHANGED cacheVars

\* --------------------------------------------------------- updateStatus
\* the call arrives and reads the row outside any transaction; `data` and
\* needsCashSync are computed from that row
US_Begin(r) ==
  /\ MayStart(r)
  /\ \E call \in UpdateStatusCalls :
       /\ req' = [req EXCEPT ![r] =
                    [NoReq EXCEPT !.op = "updateStatus", !.id = call.id,
                                  !.status = call.status, !.user = call.user]]
       /\ IF call.id # OrderId
          THEN /\ Rejected(r, "NotFound")
               /\ UNCHANGED <<snap, data, needsCashSync, clock>>
          ELSE IF AccessDenied(call.user, orders[OrderId])
          THEN /\ Rejected(r, "Forbidden")
               /\ UNCHANGED <<snap, data, needsCashSync, clock>>
          ELSE /\ snap' = [snap EXCEPT ![r] = orders[OrderId]]
               /\ data' = [data EXCEPT ![r] = StatusData(call.status, clock)]
               /\ clock' = IF call.status \in terminalStatuses
                           THEN clock + 1 ELSE clock
               /\ needsCashSync' =
                    [needsCashSync EXCEPT
                       ![r] = NeedsCashSyncUS(call.status, orders[OrderId])]
               /\ pc' = [pc EXCEPT ![r] = "us_tx"]
               /\ NoWrite
               /\ UNCHANGED outcome
  /\ UNCHANGED <<ledger, updated, attempt, delays, txOpen, notified, preTrans, posted,
                 sagaEnd, transitions, markOk, order0>>
  /\ UNCHANGED fnVars
  /\ UNCHANGED cacheVars

\* the Serializable transaction opens and reads the current status; the
\* request fails when the status is already the requested one
US_TxRead(r) ==
  /\ pc[r] = "us_tx"
  /\ IF StatusAlreadySet(orders[OrderId], req[r].status)
     THEN /\ Return(r, "AlreadySet")
          /\ UNCHANGED txOpen
     ELSE /\ txOpen' = [txOpen EXCEPT ![r] = TRUE]
          /\ pc' = [pc EXCEPT ![r] = "us_write"]
          /\ KeepLocals
          /\ UNCHANGED outcome
  /\ NoWrite
  /\ UNCHANGED <<ledger, clock, req, notified, posted, sagaEnd, transitions,
                 markOk, order0>>
  /\ UNCHANGED fnVars
  /\ UNCHANGED cacheVars

\* tx.order.update and the commit; the store refuses the update when the row
\* was written after the transaction's snapshot
US_TxWrite(r) ==
  /\ pc[r] = "us_write"
  /\ IF SerializationFailure(txStale[r])
     THEN /\ Return(r, "SerializationFailure")
          /\ txOpen' = [txOpen EXCEPT ![r] = FALSE]
          /\ txStale' = [txStale EXCEPT ![r] = FALSE]
          /\ UNCHANGED <<orders, writeLog, interfered, transitions, sagaEnd>>
     ELSE LET row == ApplyData(orders[OrderId], data[r])
          IN /\ WriteRow(r, row)
             /\ transitions' =
                  IF CountsAsTransition(orders[OrderId], row)
                  THEN transitions + 1 ELSE transitions
             /\ txOpen' = CommitTx(txOpen, r)
             /\ IF needsCashSync[r]
                THEN /\ pc' = [pc EXCEPT ![r] = AfterCommit("updateStatus", TRUE)]
                     /\ updated' = [updated EXCEPT ![r] = row]
                     /\ preTrans' = [preTrans EXCEPT ![r] = orders[OrderId]]
                     /\ attempt' = [attempt EXCEPT ![r] = 1]
                     /\ UNCHANGED delays
                     /\ sagaEnd' = [sagaEnd EXCEPT ![r] = "running"]
                     /\ UNCHANGED <<outcome, snap, data, needsCashSync>>
                ELSE /\ Return(r, "success")
                     /\ UNCHANGED sagaEnd
  /\ UNCHANGED <<ledger, clock, req, notified, posted, markOk, order0>>
  /\ UNCHANGED fnVars
  /\ UNCHANGED cacheVars

\* --------------------------------------------------------- assignMaster
\* one order.update of masterId, with no check of the caller or the row
AssignMaster(r) ==
  /\ MayStart(r)
  /\ \E call \in AssignMasterCalls :
       /\ req' = [req EXCEPT ![r] =
                    [NoReq EXCEPT !.op = "assignMaster", !.id = call.id,
                                  !.masterId = call.masterId]]
       /\ IF call.id # OrderId
          THEN /\ End(r, "RecordNotFound")
               /\ NoWrite
          ELSE /\ WriteRow(r, [orders[OrderId] EXCEPT !.masterId = call.masterId])
               /\ End(r, "success")
  /\ UNCHANGED <<ledger, clock, snap, updated, needsCashSync, attempt, delays,
                 txOpen,
                 notified, preTrans, posted, sagaEnd, transitions, markOk, data,
                 order0>>
  /\ UNCHANGED fnVars
  /\ UNCHANGED cacheVars

\* ------------------------------------------------------ syncCashReceipt
\* one POST attempt of the retry loop: the ledger books the entry and
\* answers 2xx, or the attempt fails (refused, timeout, error status); a
\* failed attempt is followed by a wait and the next one until maxRetries
\* is reached. `attempt` is scoped to the loop
SyncPost(r) ==
  /\ pc[r] = "sync_post"
  /\ \E ok \in BOOLEAN :
       IF ok
       THEN /\ ledger' = Append(ledger,
                           [orderId |-> req[r].id,
                            amount |-> masterChangeAmount(updated[r])])
            /\ posted' = [posted EXCEPT ![r] = TRUE]
            /\ pc' = [pc EXCEPT ![r] = "sync_mark"]
            /\ attempt' = [attempt EXCEPT ![r] = 0]
            /\ delays' = [delays EXCEPT ![r] = << >>]
       ELSE /\ IF attempt[r] < maxRetries
               THEN /\ attempt' = [attempt EXCEPT ![r] = @ + 1]
                    /\ delays' = [delays EXCEPT ![r] = Append(@, delayMs(attempt[r]))]
                    /\ UNCHANGED pc
               ELSE /\ pc' = [pc EXCEPT ![r] = "sync_fail"]
                    /\ attempt' = [attempt EXCEPT ![r] = 0]
                    /\ delays' = [delays EXCEPT ![r] = << >>]
            /\ UNCHANGED <<ledger, posted>>
  /\ NoWrite
  /\ UNCHANGED <<clock, req, snap, updated, needsCashSync, txOpen, outcome,
                 notified, preTrans, sagaEnd, transitions, markOk, data, order0>>
  /\ UNCHANGED fnVars
  /\ UNCHANGED cacheVars

\* after a successful POST the row is marked sent and the saga returns; a
\* failure of that write is thrown into the catch of syncCashReceipt, as a
\* failure of the POSTs is
SyncMarkSent(r) ==
  /\ pc[r] = "sync_mark"
  /\ \E stored \in BOOLEAN :
       IF ~stored
       THEN /\ pc' = [pc EXCEPT ![r] = "sync_fail"]
            /\ NoWrite
            /\ KeepLocals
            /\ UNCHANGED <<outcome, sagaEnd>>
       ELSE /\ sagaEnd' = [sagaEnd EXCEPT ![r] = "sent"]
            /\ IF AfterSyncSuccess(req[r].op) = "done"
               THEN /\ WriteRowLast(r, SentData(orders[OrderId], updated[r], clock))
                    /\ Return(r, "success")
               ELSE /\ WriteRow(r, SentData(orders[OrderId], updated[r], clock))
                    /\ pc' = [pc EXCEPT ![r] = AfterSyncSuccess(req[r].op)]
                    /\ KeepLocals
                    /\ UNCHANGED outcome
  /\ UNCHANGED <<ledger, clock, req, txOpen, notified, posted, transitions,
                 markOk, order0>>
  /\ UNCHANGED fnVars
  /\ UNCHANGED cacheVars

\* after the last failed attempt the row is marked sync-error; a failure of
\* that write is logged and swallowed; the error is thrown to the caller
SyncMarkError(r) ==
  /\ pc[r] = "sync_fail"
  /\ \E stored \in BOOLEAN :
       /\ IF stored
          THEN WriteRow(r, SyncErrorData(orders[OrderId], clock))
          ELSE NoWrite
       /\ markOk' = [markOk EXCEPT ![r] = stored]
  /\ sagaEnd' = [sagaEnd EXCEPT ![r] = "sync-error"]
  /\ IF AfterSyncFailure(req[r].op) = "done"
     THEN Return(r, "SettlementUnavailable")
     ELSE /\ pc' = [pc EXCEPT ![r] = AfterSyncFailure(req[r].op)]
          /\ KeepLocals
          /\ UNCHANGED outcome
  /\ UNCHANGED <<ledger, clock, req, txOpen, notified, posted, transitions,
                 order0>>
  /\ UNCHANGED fnVars
  /\ UNCHANGED cacheVars

\* the caller's catch: statusOrder and closingData are written back from
\* the row read before the write, and the request ends with an error
Compensate(r) ==
  /\ pc[r] = "compensate"
  /\ sagaEnd' = [sagaEnd EXCEPT ![r] = "compensated"]
  /\ markOk' = [markOk EXCEPT ![r] = FALSE]
  /\ IF AfterCompensation(req[r].op) = "done"
     THEN /\ WriteRowLast(r, RevertData(orders[OrderId], snap[r]))
          /\ Return(r, "SettlementUnavailable")
     ELSE /\ WriteRow(r, RevertData(orders[OrderId], snap[r]))
          /\ pc' = [pc EXCEPT ![r] = AfterCompensation(req[r].op)]
          /\ KeepLocals
          /\ UNCHANGED outcome
  /\ UNCHANGED <<ledger, clock, req, txOpen, notified, posted, transitions,
                 order0>>
  /\ UNCHANGED fnVars
  /\ UNCHANGED cacheVars

\* ----------------------------------------------------------------- Next
Next ==
  \E r \in Req :
    \/ UO_Begin(r)
    \/ UO_Write(r)
    \/ UO_Notify(r)
    \/ US_Begin(r)
    \/ US_TxRead(r)
    \/ US_TxWrite(r)
    \/ AssignMaster(r)
    \/ SyncPost(r)
    \/ SyncMarkSent(r)
    \/ SyncMarkError(r)
    \/ Compensate(r)

Spec == Init /\ [][Next]_vars

\* ------------------------------------------------ calls made on their own
\* each behaviour of SpecFn makes one call
\* updateOrder run alone on a stored row, start to end, for the payloads
\* that start no settlement saga: the row its one write leaves
CallUpdateOrder ==
  /\ args = NoCall
  /\ \E row \in StoredRows, dto \in FnPayloads, t \in Times, now \in Times :
       LET written == ApplyData(row, BuildUpdateData(dto, row, now))
       IN /\ now >= t
          /\ ~NeedsCashSyncUO(dto, written)
          /\ args' = [NoCall EXCEPT !.op = "updateOrder", !.id = OrderId,
                                    !.row = row, !.dto = dto,
                                    !.reqTime = t, !.now = now]
          /\ ret' = [NoRet EXCEPT !.outcome = "success", !.row = written]
          /\ promises' = Dispatched(UpdateNotifications(row, dto))
  /\ UNCHANGED handlerVars
  /\ UNCHANGED cacheVars

\* getOrders by a caller with a query
CallGetOrders ==
  /\ args = NoCall
  /\ \E user \in QueryUsers, q \in Queries :
       /\ args' = [NoCall EXCEPT !.op = "getOrders", !.user = user, !.query = q]
       /\ ret' = [NoRet EXCEPT !.outcome = "success",
                               !.orders = GetOrders(user, q)]
  /\ UNCHANGED promises
  /\ UNCHANGED handlerVars
  /\ UNCHANGED cacheVars

\* getOrder by a caller with an id
CallGetOrder ==
  /\ args = NoCall
  /\ \E user \in QueryUsers, id \in FetchIds :
       /\ args' = [NoCall EXCEPT !.op = "getOrder", !.user = user, !.id = id]
       /\ ret' = GetOrder(user, id)
  /\ UNCHANGED promises
  /\ UNCHANGED handlerVars
  /\ UNCHANGED cacheVars

\* updateStatus run alone on a stored row, start to end, for the rows that
\* start no settlement saga
CallUpdateStatus ==
  /\ args = NoCall
  /\ \E row \in StoredRows, status \in StatusStrings, user \in Users,
        now \in Times :
       /\ ~NeedsCashSyncUS(status, row)
       /\ args' = [NoCall EXCEPT !.op = "updateStatus", !.id = OrderId,
                                 !.row = row, !.status = status,
                                 !.user = [NoUser EXCEPT !.role = user.role,
                                                         !.userId = user.userId],
                                 !.reqTime = now, !.now = now]
       /\ ret' =
            IF AccessDenied(user, row)
            THEN [NoRet EXCEPT !.outcome = "Forbidden"]
            ELSE IF StatusAlreadySet(row, status)
            THEN [NoRet EXCEPT !.outcome = "AlreadySet"]
            ELSE [NoRet EXCEPT !.outcome = "success",
                               !.row = ApplyData(row, StatusData(status, now))]
  /\ UNCHANGED promises
  /\ UNCHANGED handlerVars
  /\ UNCHANGED cacheVars

\* the rows submitCashForReview may find: assigned to master 1, to master 2
\* or to nobody, with or without a master change amount, the cash not
\* submitted, under review or sent
SubmitRows ==
  { [row EXCEPT !.masterId = m, !.masterChange = mc,
                !.cashSubmissionStatus = cs]
    : row \in StoredRows, m \in {Null, 1, 2}, mc \in {Null, 5},
      cs \in {"NotSent", "UnderReview", "Sent"} }

\* the callers the route admits (@Roles(UserRole.master))
SubmitCallers == {Master1, [role |-> "master", userId |-> 2]}

\* the receipt documents of the body: absent, empty, a file key
ReceiptDocs == {UndefS, "", "receipt.jpg"}

\* variant: the owner of the order is not compared with the caller
SubmitRefusal_AnyMaster(found, order, user) ==
  IF ~found THEN "NotFound"
  ELSE IF order.statusOrder # "Done" THEN "NotDone"
  ELSE IF order.cashSubmissionStatus = "UnderReview" THEN "AlreadyUnderReview"
  ELSE "none"

\* submitCashForReview: the checks made on the row read, in their order
SubmitRefusal(found, order, user) ==
  IF ~found THEN "NotFound"
  ELSE IF order.masterId # user.userId THEN "NotOwner"
  ELSE IF order.statusOrder # "Done" THEN "NotDone"
  ELSE IF order.cashSubmissionStatus = "UnderReview" THEN "AlreadyUnderReview"
  ELSE "none"

\* submitCashForReview: the data of its update
SubmitData(row, order, doc, now) ==
  [row EXCEPT !.cashSubmissionStatus = "UnderReview",
              !.cashReceiptDoc = IF doc \in {UndefS, ""} THEN NullS ELSE doc,
              !.cashSubmissionDate = now,
              !.cashSubmissionAmount =
                 IF order.masterChange \in {Null, 0} THEN 0
                 ELSE order.masterChange]

\* submitCashForReview run alone by a master on a stored row or on an id
\* that names no order: a refusal and a failed read or write are returned as
\* failure values and store nothing
CallSubmitCashForReview ==
  /\ args = NoCall
  /\ \E row \in SubmitRows, id \in {OrderId, MissingId},
        user \in SubmitCallers, doc \in ReceiptDocs, now \in Times,
        readOk \in BOOLEAN, stored \in BOOLEAN :
       LET found == id = OrderId
           before == IF found THEN row ELSE NoRow
           refusal == SubmitRefusal(found, row, user)
       IN /\ args' = [NoCall EXCEPT !.op = "submitCashForReview", !.id = id,
                                    !.row = before, !.doc = doc,
                                    !.user = [NoUser EXCEPT
                                                !.role = user.role,
                                                !.userId = user.userId],
                                    !.reqTime = now, !.now = now]
          /\ ret' =
               IF ~readOk THEN [NoRet EXCEPT !.outcome = "Error", !.row = before]
               ELSE IF refusal # "none"
               THEN [NoRet EXCEPT !.outcome = refusal, !.row = before]
               ELSE IF ~stored
               THEN [NoRet EXCEPT !.outcome = "Error", !.row = before]
               ELSE [NoRet EXCEPT !.outcome = "success",
                                  !.row = SubmitData(row, row, doc, now)]
  /\ UNCHANGED promises
  /\ UNCHANGED handlerVars
  /\ UNCHANGED cacheVars

\* getOrders by the operator without filters on a table: one page of the
\* rows in the order of the ORDER BY clause
CallListOrders ==
  /\ args = NoCall
  /\ \E table \in ListTables, pageNo \in ListPages, limit \in ListLimits :
       \E sorted \in OrderBy(table) :
         /\ args' = [NoCall EXCEPT !.op = "listOrders", !.table = table,
                                   !.pageNo = pageNo, !.limit = limit]
         /\ ret' = [NoRet EXCEPT !.outcome = "success",
                                 !.page = PageOf(sorted, pageNo, limit)]
  /\ UNCHANGED promises
  /\ UNCHANGED handlerVars
  /\ UNCHANGED cacheVars

\* createOrder run alone: the order is stored, the notifications are
\* dispatched and the response is returned
CallCreateOrder ==
  /\ args = NoCall
  /\ \E dto \in CreatePayloads, now \in Times :
       /\ args' = [NoCall EXCEPT !.op = "createOrder", !.id = OrderId,
                                 !.dto = dto, !.reqTime = now, !.now = now]
       /\ ret' = [NoRet EXCEPT !.outcome = "success", !.row = CreatedRow(dto)]
       /\ promises' = Dispatched(CreateNotifications)
  /\ UNCHANGED handlerVars
  /\ UNCHANGED cacheVars

\* a notification promise settles, fulfilled or rejected, after the call
\* that dispatched it has returned
SettleNotification ==
  /\ \E p \in promises, fulfilled \in BOOLEAN :
       /\ p.state = "pending"
       /\ promises' = (promises \ {p})
            \cup {[p EXCEPT !.state = IF fulfilled THEN "fulfilled" ELSE "rejected"]}
       /\ ret' = fireAndForgetNotification(ret, fulfilled)
  /\ UNCHANGED args
  /\ UNCHANGED handlerVars
  /\ UNCHANGED cacheVars

\* syncCashReceipt and the caller's catch, run with no other request: the
\* outcome and the row left, given whether a POST was booked and whether
\* the write of the sent mark and of the sync-error mark are stored
SagaAlone(order, written, booked, sentStored, errStored, now) ==
  IF booked /\ sentStored
  THEN [outcome |-> "success", row |-> SentData(written, written, now)]
  ELSE LET marked == IF errStored THEN SyncErrorData(written, now)
                     ELSE written
       IN [outcome |-> "SettlementUnavailable",
           row |-> RevertData(marked, order)]

\* updateOrder run alone on a stored row, start to end, for the payloads
\* that start the settlement saga
CallUpdateOrderSaga ==
  /\ args = NoCall
  /\ \E row \in StoredRows, dto \in ClosePayloads, now \in Times,
        booked \in BOOLEAN, sentStored \in BOOLEAN, errStored \in BOOLEAN :
       LET written == ApplyData(row, BuildUpdateData(dto, row, now))
           end == SagaAlone(row, written, booked, sentStored, errStored, now)
       IN /\ NeedsCashSyncUO(dto, written)
          /\ args' = [NoCall EXCEPT !.op = "updateOrderSaga", !.id = OrderId,
                                    !.row = row, !.dto = dto,
                                    !.reqTime = now, !.now = now]
          /\ ret' = [NoRet EXCEPT !.outcome = end.outcome, !.row = end.row]
          /\ ledger' = IF booked
                       THEN Append(ledger,
                              [orderId |-> OrderId,
                               amount |-> masterChangeAmount(written)])
                       ELSE ledger
          /\ promises' = IF end.outcome = "success"
                         THEN Dispatched(UpdateNotifications(row, dto))
                         ELSE {}
  /\ UNCHANGED <<orders, clock, pc, req, snap, updated, needsCashSync, attempt,
                 delays, txOpen, txStale, outcome, notified, preTrans,
                 writeLog, posted, interfered, sagaEnd, transitions, markOk,
                 data, order0>>
  /\ UNCHANGED cacheVars

NextFn ==
  \/ CallUpdateOrder
  \/ CallUpdateOrderSaga
  \/ CallUpdateStatus
  \/ CallSubmitCashForReview
  \/ CallCreateOrder
  \/ CallListOrders
  \/ SettleNotification
  \/ CallGetOrders
  \/ CallGetOrder

SpecFn == Init /\ [][NextFn]_vars

\* -------------------------------------------------- filter-options cache
\* Map.get: the position of the key's entry, 0 when there is none
CacheIndex(cache, key) ==
  IF \E i \in 1..Len(cache) : cache[i].key = key
  THEN CHOOSE i \in 1..Len(cache) : cache[i].key = key
  ELSE 0

\* Map.set: an entry of the key is replaced in place, a new one goes last
CacheSet(cache, entry) ==
  LET i == CacheIndex(cache, entry.key)
  IN IF i = 0 THEN Append(cache, entry) ELSE [cache EXCEPT ![i] = entry]

\* Map.delete of the entry at position i
CacheDelete(cache, i) ==
  [j \in 1..(Len(cache) - 1) |-> IF j < i THEN cache[j] ELSE cache[j + 1]]

\* variant: the entry inserted first is evicted
OldestIndex_First(cache) == 1

\* evictLRUCacheEntry: the position of the first entry whose lastAccess is
\* below that of every entry before it and not above any after it
OldestIndex(cache) ==
  CHOOSE i \in 1..Len(cache) :
    /\ \A j \in 1..(i - 1) : cache[j].lastAccess > cache[i].lastAccess
    /\ \A j \in (i + 1)..Len(cache) : cache[j].lastAccess >= cache[i].lastAccess

evictLRUCacheEntry(cache) ==
  IF Len(cache) = 0 THEN cache ELSE CacheDelete(cache, OldestIndex(cache))

\* variant: the new entry is set without looking at the size
CacheAfterStore_NoEvict(cache, entry) == CacheSet(cache, entry)

\* the entries the store step leaves: the eviction when the cache is full,
\* then the set
CacheAfterStore(cache, entry) ==
  CacheSet(IF Len(cache) >= CacheMaxSize THEN evictLRUCacheEntry(cache)
           ELSE cache,
           entry)

\* the periodic cleanup: the entries that have not expired
RECURSIVE CleanExpired(_, _)
CleanExpired(cache, now) ==
  IF cache = << >> THEN << >>
  ELSE IF Head(cache).expiry < now THEN CleanExpired(Tail(cache), now)
  ELSE <<Head(cache)>> \o CleanExpired(Tail(cache), now)

\* variant: the comparison with the expiry is turned round
CacheHit_ExpiredOnly(cache, key, now) ==
  CacheIndex(cache, key) # 0 /\ cache[CacheIndex(cache, key)].expiry < now

\* a cached entry is served: `cached && cached.expiry > Date.now()`
CacheHit(cache, key, now) ==
  CacheIndex(cache, key) # 0 /\ cache[CacheIndex(cache, key)].expiry > now

KeysOf(cache) == {cache[i].key : i \in 1..Len(cache)}

\* the lowest free slot takes the next call
FoMayStart(c) ==
  /\ foCall[c].pc = "idle"
  /\ \A d \in FoCalls : d < c => foCall[d].pc # "idle"

\* a step in which no getFilterOptions call returns
FoNoReturn == foRet' = FoNoRet

\* getFilterOptions is called: the key is computed and the cache is looked
\* up; a hit refreshes lastAccess and returns the cached data, a miss goes on
\* to the connection probe and the queries
FO_BeginFor(c, users) ==
  /\ FoMayStart(c)
  /\ \E user \in users :
       LET key == CacheKey(user)
           i == CacheIndex(filterOptionsCache, key)
       IN IF CacheHit(filterOptionsCache, key, foNow)
          THEN /\ filterOptionsCache' =
                    [filterOptionsCache EXCEPT ![i].lastAccess = foNow]
               /\ foRet' = [FoNoRet EXCEPT !.outcome = "success", !.user = user,
                                           !.key = key,
                                           !.data = filterOptionsCache[i].data,
                                           !.cached = TRUE]
               /\ UNCHANGED foCall
          ELSE /\ foCall' = [foCall EXCEPT ![c] =
                               [FoNoCall EXCEPT !.pc = "fo_query", !.user = user,
                                                !.key = key, !.attempt = 1]]
               /\ FoNoReturn
               /\ UNCHANGED filterOptionsCache
  /\ UNCHANGED <<foTable, foNow, foFill, foCreate>>
  /\ UNCHANGED <<handlerVars, fnVars>>

FO_Begin(c) == FO_BeginFor(c, FoUsers)

\* the same call made by the callers of ScopeUsers
FO_BeginScoped(c) == FO_BeginFor(c, ScopeUsers)

\* executeQueries(attempt): the three queries race the 5 s timeout; a
\* retryable error before the third attempt waits 500 ms * attempt and runs
\* the queries again; any other failure is thrown to the catch of
\* getFilterOptions, which answers a timeout with the empty options and
\* rethrows every other error
FO_Attempt(c) ==
  /\ foCall[c].pc = "fo_query"
  /\ \E res \in FoAttemptResults :
       LET call == foCall[c]
           response == [FoNoRet EXCEPT !.user = call.user, !.key = call.key,
                                       !.error = res,
                                       !.queries = call.attempt,
                                       !.waits = call.waits,
                                       !.onlyTimeouts =
                                          call.onlyTimeouts /\ res = "timeout"]
       IN IF res = "rows"
          THEN /\ foCall' = [foCall EXCEPT ![c] =
                               [call EXCEPT !.pc = "fo_store",
                                            !.result = FoResult(call.user, foTable),
                                            !.onlyTimeouts = TRUE,
                                            !.failure = "none"]]
               /\ FoNoReturn
          ELSE IF isRetryableError(res) /\ call.attempt < FoMaxAttempts
          THEN /\ foCall' = [foCall EXCEPT ![c] =
                               [call EXCEPT !.attempt = @ + 1,
                                            !.waits = Append(@, 500 * call.attempt),
                                            !.onlyTimeouts = @ /\ res = "timeout",
                                            !.failure = res]]
               /\ FoNoReturn
          ELSE /\ foCall' = [foCall EXCEPT ![c] = FoNoCall]
               /\ foRet' = IF res = "timeout"
                           THEN [response EXCEPT !.outcome = "success",
                                                 !.data = FoTimeoutData]
                           ELSE [response EXCEPT !.outcome = "thrown"]
  /\ UNCHANGED <<filterOptionsCache, foTable, foNow, foFill, foCreate>>
  /\ UNCHANGED <<handlerVars, fnVars>>

\* the queries returned: the least recently accessed entry is evicted when
\* the cache is full, the result is stored under the key and returned
FO_Store(c) ==
  /\ foCall[c].pc = "fo_store"
  /\ LET call == foCall[c]
         entry == [key |-> call.key, data |-> call.result,
                   expiry |-> foNow + FILTER_OPTIONS_CACHE_TTL,
                   lastAccess |-> foNow]
         cache == CacheAfterStore(filterOptionsCache, entry)
     IN /\ filterOptionsCache' = cache
        /\ foCall' = [foCall EXCEPT ![c] = FoNoCall]
        /\ foRet' = [FoNoRet EXCEPT !.outcome = "success", !.user = call.user,
                                    !.key = call.key, !.data = call.result,
                                    !.queries = call.attempt,
                                    !.waits = call.waits]
        /\ foFill' =
             [k \in CacheKeys |->
                IF k = call.key
                THEN [filled |-> TRUE, data |-> call.result, time |-> foNow,
                      evicted |-> FALSE, user |-> call.user]
                ELSE IF k \in KeysOf(filterOptionsCache) \ KeysOf(cache)
                        /\ foFill[k].filled
                THEN [foFill[k] EXCEPT !.evicted = TRUE]
                ELSE foFill[k]]
  /\ UNCHANGED <<foTable, foNow, foCreate>>
  /\ UNCHANGED <<handlerVars, fnVars>>

\* createOrder: prisma.order.create stores the new order
FO_CreateOrder ==
  /\ foCreate = "idle"
  /\ foTable' = foTable \cup {FoNewRow}
  /\ foCreate' = "created"
  /\ FoNoReturn
  /\ UNCHANGED <<filterOptionsCache, foNow, foCall, foFill>>
  /\ UNCHANGED <<handlerVars, fnVars>>

\* createOrder goes on after the create: invalidateFilterOptionsCache clears
\* the cache and the response is returned
FO_CreateReturn ==
  /\ foCreate = "created"
  /\ filterOptionsCache' = << >>
  /\ foFill' = [k \in CacheKeys |-> FoNoFill]
  /\ foCreate' = "done"
  /\ FoNoReturn
  /\ UNCHANGED <<foTable, foNow, foCall>>
  /\ UNCHANGED <<handlerVars, fnVars>>

\* updateOrder (and updateStatus) as the cache sees it: the order's row is
\* written, here the city of order 1, and the cache is left as it is
FO_UpdateOrder ==
  /\ \E o \in foTable :
       /\ o.id = 1 /\ o.city # FoNewCity
       /\ foTable' = (foTable \ {o}) \cup {[o EXCEPT !.city = FoNewCity]}
  /\ FoNoReturn
  /\ UNCHANGED <<filterOptionsCache, foNow, foCall, foFill, foCreate>>
  /\ UNCHANGED <<handlerVars, fnVars>>

\* time passes; the history of a key ends with the TTL of what was stored
FO_Tick ==
  /\ foNow + 1 \in Instants
  /\ foNow' = foNow + 1
  /\ foFill' =
       [k \in CacheKeys |->
          IF foFill[k].filled
             /\ foFill[k].time + FILTER_OPTIONS_CACHE_TTL <= foNow + 1
          THEN FoNoFill ELSE foFill[k]]
  /\ FoNoReturn
  /\ UNCHANGED <<filterOptionsCache, foTable, foCall, foCreate>>
  /\ UNCHANGED <<handlerVars, fnVars>>

\* the cleanup interval fires: expired entries are deleted
FO_Cleanup ==
  /\ CleanExpired(filterOptionsCache, foNow) # filterOptionsCache
  /\ filterOptionsCache' = CleanExpired(filterOptionsCache, foNow)
  /\ FoNoReturn
  /\ UNCHANGED <<foTable, foNow, foCall, foFill, foCreate>>
  /\ UNCHANGED <<handlerVars, fnVars>>

NextCache ==
  \/ \E c \in FoCalls : FO_Begin(c)
  \/ \E c \in FoCalls : FO_Attempt(c)
  \/ \E c \in FoCalls : FO_Store(c)
  \/ FO_CreateOrder
  \/ FO_CreateReturn
  \/ FO_UpdateOrder
  \/ FO_Tick
  \/ FO_Cleanup

\* the order row of the handlers plays no part here: one initial row
InitCache == Init /\ orders[OrderId].masterId = Null

SpecCache == InitCache /\ [][NextCache]_vars

\* getFilterOptions called by the callers of ScopeUsers over an unchanging
\* orders table
NextScope ==
  \/ \E c \in FoCalls : FO_BeginScoped(c)
  \/ \E c \in FoCalls : FO_Attempt(c)
  \/ \E c \in FoCalls : FO_Store(c)
  \/ FO_Tick
  \/ FO_Cleanup

SpecScope == InitCache /\ [][NextScope]_vars

\* =================================================================
\* Properties
\* =================================================================
\* the step in which request r returns its response or its error
Ends(r) == pc[r] # "done" /\ pc'[r] = "done"

\* request r started the settlement saga
SagaTriggered(r) == sagaEnd[r] # "none"

Closed(row) ==
  row.statusOrder = "Done" /\ Truthy(row.masterChange) /\ row.masterChange > 0

Quiescent == \A r \in Req : pc[r] \in {"idle", "done"}

ConflictOutcomes == {"AlreadySet", "SerializationFailure"}

\* C1: when a request moved the order to Done with positive masterChange and
\* every ledger POST of its saga failed, then at the moment the request ends
\* the stored statusOrder and closingData are the values stored immediately
\* before the request's own write.
C1_RevertsToPreTransition ==
  [][\A r \in Req :
       (Ends(r) /\ SagaTriggered(r) /\ ~posted[r])
         => /\ orders'[OrderId].statusOrder = preTrans[r].statusOrder
            /\ orders'[OrderId].closingData = preTrans[r].closingData]_vars

\* C2: whenever no request is in flight, an order that is Done with positive
\* masterChange has a booked ledger entry.
C2_NoClosedOrderWithoutEntry ==
  (Quiescent /\ Closed(orders[OrderId])) => LedgerCount(OrderId) >= 1

\* C3: the ledger entries booked for the order never outnumber the committed
\* transitions of the order from another status into Done with positive
\* masterChange.
C3_AtMostOneEntryPerTransition ==
  LedgerCount(OrderId) <= transitions

\* two updateStatus requests for the order with the same status, new for the
\* order, both past the RBAC check and ended, and no other request started
SameStatusPair(r1, r2) ==
  /\ r1 # r2
  /\ req[r1].op = "updateStatus" /\ req[r2].op = "updateStatus"
  /\ req[r1].id = OrderId /\ req[r2].id = OrderId
  /\ req[r1].status = req[r2].status
  /\ req[r1].status # order0.statusOrder
  /\ pc[r1] = "done" /\ pc[r2] = "done"
  /\ outcome[r1] # "Forbidden" /\ outcome[r2] # "Forbidden"
  /\ \A q \in Req \ {r1, r2} : pc[q] = "idle"

ExactlyOneSucceeds(r1, r2) ==
  \/ outcome[r1] = "success" /\ outcome[r2] \in ConflictOutcomes
  \/ outcome[r2] = "success" /\ outcome[r1] \in ConflictOutcomes

SeqUpdateOrder(row, q) ==
  IF AccessDenied(req[q].user, row) THEN row
  ELSE ApplyData(row, BuildUpdateData(req[q].dto, row, 0))

\* C5: the row two overlapping updateOrder requests leave is the row that
\* running them one after the other, in one of the two orders, leaves.
C5_NoLostUpdate ==
  \A r1, r2 \in Req :
    ( /\ r1 # r2
      /\ req[r1].op = "updateOrder" /\ req[r2].op = "updateOrder"
      /\ req[r1].id = OrderId /\ req[r2].id = OrderId
      /\ req[r1].dto.statusOrder = UndefS /\ req[r2].dto.statusOrder = UndefS
      /\ pc[r1] = "done" /\ pc[r2] = "done"
      /\ \A q \in Req \ {r1, r2} : pc[q] = "idle" )
    => orders[OrderId] \in
         { SeqUpdateOrder(SeqUpdateOrder(order0, r1), r2),
           SeqUpdateOrder(SeqUpdateOrder(order0, r2), r1) }

\* C6: no ledger POST is in progress while the database transaction of the
\* same request is open.
C6_NoPostInsideTransaction ==
  \A r \in Req : pc[r] = "sync_post" => ~txOpen[r]

\* a retry of the POST is in progress while another request's transaction
\* is open
C6_Witness ==
  \E r, q \in Req : pc[r] = "sync_post" /\ attempt[r] = 2 /\ txOpen[q]

SettledRow(row) ==
  /\ row.statusOrder = "Done"
  /\ row.cashSubmissionStatus = "Sent"
  /\ row.cashSubmissionDate # Null
  /\ row.cashSubmissionAmount = row.masterChange

C10_MasterWritesOwnOrder ==
  \A r \in Req :
    (req[r].op \in {"updateOrder", "updateStatus"} /\ req[r].user.role = "master")
      => writeLog[r] \subseteq {req[r].user.userId}

\* C11: a request of updateOrder or updateStatus that ends with NotFound or
\* Forbidden ends in the step in which it arrived, and that step leaves the
\* stored order and the ledger as they were and dispatches no notification.
C11_RejectedWithoutEffect ==
  [][\A r \in Req :
       (Ends(r) /\ outcome'[r] \in {"NotFound", "Forbidden"}
        /\ req'[r].op \in {"updateOrder", "updateStatus"})
         => /\ pc[r] = "idle"
            /\ orders' = orders
            /\ ledger' = ledger
            /\ notified'[r] = {}]_vars

\* a master's request was refused and a request for an unknown id failed
C11_Witness ==
  \E r1, r2 \in Req :
    /\ req[r1].op \in {"updateOrder", "updateStatus"}
    /\ req[r2].op \in {"updateOrder", "updateStatus"}
    /\ pc[r1] = "done" /\ outcome[r1] = "Forbidden"
    /\ pc[r2] = "done" /\ outcome[r2] = "NotFound"

\* C12: every order getOrders selects for a master has the caller's id as
\* masterId, whatever status, city, masterId and search filters the query
\* carries.
C12_MasterSeesOwnOrders ==
  (args.op = "getOrders" /\ args.user.role = "master")
    => \A o \in ret.orders : o.masterId = args.user.userId

\* a master searched, got an order, and an order of the table that matches
\* the filters and the search was kept from the result
C12_Witness ==
  /\ args.op = "getOrders" /\ args.user.role = "master"
  /\ args.query.search # << >>
  /\ ret.orders # {}
  /\ \E o \in Table \ ret.orders :
       FilterConds(args.query, o) /\ SearchCond(args.query, o)

\* C13: every order getOrders selects for a director has its city in the
\* director's city list, for every query and every city list, an empty and
\* a missing one included.
C13_DirectorSeesOwnCities ==
  (args.op = "getOrders" /\ args.user.role = "director")
    => \A o \in ret.orders : o.city \in args.user.cities.list

\* the caller may read the order: a master his own, a director one of a city
\* of his list
MayRead(user, o) ==
  /\ user.role = "master" => o.masterId = user.userId
  /\ user.role = "director" => o.city \in user.cities.list

\* C14: getOrder for an existing order returns it only to a caller who may
\* read it, and otherwise fails with Forbidden and returns no order.
C14_GetOrderChecksScope ==
  (args.op = "getOrder" /\ \E o \in Table : o.id = args.id)
    => LET order == CHOOSE o \in Table : o.id = args.id
       IN IF MayRead(args.user, order)
          THEN ret.outcome = "success" /\ ret.orders = {order}
          ELSE ret.outcome = "Forbidden" /\ ret.orders = {}

\* C15: after a successful updateOrder whose payload supplies result or
\* expenditure (or both), the stored clean is the stored result minus the
\* stored expenditure (an unset side counting as 0), whatever clean the
\* payload carries.
C15_CleanIsResultMinusExpenditure ==
  (args.op = "updateOrder" /\ ret.outcome = "success"
   /\ (Given(args.dto.result) \/ Given(args.dto.expenditure)))
    => ret.row.clean = ToNumber(ret.row.result) - ToNumber(ret.row.expenditure)

\* C16: in every reachable state the stored closingData is non-null exactly
\* when the stored statusOrder is a terminal status.
C16_ClosingDataIffTerminal ==
  orders[OrderId].closingData # Null
    <=> orders[OrderId].statusOrder \in terminalStatuses

\* C17: a successful updateOrder that moves an order from an active into a
\* terminal status with a payload that supplies no closingData value (the key
\* absent or null) leaves closingData set to a time not earlier than the time
\* of the request.
C17_ClosingStampNotBeforeRequest ==
  (args.op = "updateOrder" /\ ret.outcome = "success"
   /\ args.row.statusOrder \notin terminalStatuses
   /\ args.dto.statusOrder \in terminalStatuses
   /\ ~Given(args.dto.closingData))
    => /\ ret.row.closingData # Null
       /\ ret.row.closingData >= args.reqTime

\* C18: a write of updateOrder that changes the stored city of an order
\* whose stored masterId was non-null leaves the stored masterId null.
C18_CityChangeClearsMaster ==
  [][\A r \in Req :
       (pc[r] = "uo_write" /\ pc'[r] # "uo_write"
        /\ orders'[OrderId].city # orders[OrderId].city
        /\ orders[OrderId].masterId # Null)
         => orders'[OrderId].masterId = Null]_vars

\* the keys of the payload that hold numbers, and the absence of a key
NumericKeys ==
  {"masterId", "masterChange", "closingData", "result", "expenditure", "clean"}

KeyAbsent(dto, f) ==
  IF f \in DOMAIN dto
  THEN IF f \in NumericKeys THEN dto[f] = Undef ELSE dto[f] = UndefS
  ELSE TRUE

\* the fields updateOrder derives from other keys of the payload
Derived(dto, order, f) ==
  \/ f = "clean" /\ (Given(dto.result) \/ Given(dto.expenditure))
  \/ f = "closingData" /\ dto.statusOrder \in terminalStatuses
  \/ f = "masterId" /\ cityChangedOf(dto, order) /\ Truthy(order.masterId)

ClearingKeys == {"masterId", "bsoDoc", "partner"}

\* the payload with the nulls of all other keys taken out
RECURSIVE WithoutNulls(_, _)
WithoutNulls(dto, keys) ==
  IF keys = {} THEN dto
  ELSE LET f == CHOOSE k \in keys : TRUE
           rest == WithoutNulls(dto, keys \ {f})
       IN IF f \in ClearingKeys THEN rest
          ELSE IF f \in NumericKeys
          THEN [rest EXCEPT ![f] = IF @ = Null THEN Undef ELSE @]
          ELSE [rest EXCEPT ![f] = IF @ = NullS THEN UndefS ELSE @]

\* C20: an explicit null for masterId, the document list or the partner flag
\* stores null in that field, and the row updateOrder leaves is the row it
\* leaves for the payload with every other null key taken out.
C20_NullClearsOrIsNoOp ==
  (args.op = "updateOrder" /\ ret.outcome = "success")
    => /\ args.dto.masterId = Null => ret.row.masterId = Null
       /\ args.dto.bsoDoc = NullS => ret.row.bsoDoc = NullS
       /\ args.dto.partner = NullS => ret.row.partner = NullS
       /\ ret.row =
            ApplyData(args.row,
                      BuildUpdateData(WithoutNulls(args.dto, DOMAIN args.dto),
                                      args.row, args.now))


\* C21: the statusOrder a successful updateOrder or updateStatus call leaves
\* stored is one of the eight statuses of the state machine.
C21_StatusIsOneOfEight ==
  (args.op \in {"updateOrder", "updateStatus"} /\ ret.outcome = "success")
    => ret.row.statusOrder \in Statuses


\* the step in which createOrder returns, and the one in which updateOrder
\* (or updateStatus) has written the order and returns
CreateReturns == foCreate = "created" /\ foCreate' = "done"

UpdateReturns == foTable' # foTable /\ foCreate' = foCreate

\* C22: when a successful order create or update returns, the filter-options
\* cache holds no entry.
C22_MutationClearsCache ==
  [][(CreateReturns \/ UpdateReturns) => filterOptionsCache' = << >>]_vars


\* the step in which a getFilterOptions call of the scope with key k arrives:
\* it goes on to the queries, or it is answered from the cache
ArrivesFor(c, k) ==
  /\ foCall[c].pc = "idle"
  /\ \/ foCall'[c].pc = "fo_query" /\ foCall'[c].key = k
     \/ foCall'[c].pc = "idle" /\ foRet'.cached /\ foRet'.key = k

\* the call that arrives is answered at once, without a query, with data d
AnsweredFromCache(c, d) ==
  /\ foCall'[c].pc = "idle"
  /\ foRet'.outcome = "success"
  /\ foRet'.data = d
  /\ foRet'.queries = 0

\* C23 as stated: a getFilterOptions call that arrives within the TTL of
\* what an earlier call of the same scope stored, with no invalidation in
\* between, returns the stored content and issues no store query.
C23_SecondCallServedFromCache ==
  [][\A c \in FoCalls, k \in CacheKeys :
       (ArrivesFor(c, k) /\ foFill[k].filled)
         => AnsweredFromCache(c, foFill[k].data)]_vars

\* C23 amended: the same, when the entry has not been evicted in between to
\* admit an entry of another scope.
C23_ServedFromCacheUnlessEvicted ==
  [][\A c \in FoCalls, k \in CacheKeys :
       (ArrivesFor(c, k) /\ foFill[k].filled /\ ~foFill[k].evicted)
         => AnsweredFromCache(c, foFill[k].data)]_vars

\* a call was answered from an entry stored at an earlier instant, after the
\* order it lists was moved to another city
C23_Witness ==
  /\ foRet.cached /\ foRet.queries = 0
  /\ foRet.key = "global"
  /\ foFill["global"].filled /\ foFill["global"].time < foNow
  /\ foRet.data = foFill["global"].data
  /\ foRet.data["cities"] = {"A"}
  /\ \E o \in foTable : o.city = FoNewCity


\* the three lists of the filter options
OptionLists == {"rks", "typeEquipments", "cities"}

\* C24: a getFilterOptions call whose attempts all ended in a timeout returns
\* a successful result in which each of the three lists is present and
\* empty; a call whose last failure is not a timeout throws.
C24_TimeoutGivesEmptyOptions ==
  /\ (foRet.error = "timeout" /\ foRet.onlyTimeouts)
       => /\ foRet.outcome = "success"
          /\ \A k \in OptionLists : k \in DOMAIN foRet.data /\ foRet.data[k] = {}
  /\ foRet.error \in {"reset", "fatal"} => foRet.outcome = "thrown"


\* the step in which createOrder or updateOrder, called on its own, returns
CallReturns ==
  args = NoCall /\ args'.op \in {"createOrder", "updateOrder"}

LadderIndex(status) ==
  CHOOSE i \in 1..Len(activeStatuses) : activeStatuses[i] = status

IsActive(o) == \E i \in 1..Len(activeStatuses) : activeStatuses[i] = o.statusOrder

IsTerminal(o) == o.statusOrder \in terminalStatuses

\* C26: in the page getOrders returns every active order precedes every
\* terminal order; active orders come in the order of the ladder and, within
\* one status, by ascending dateMeeting with nulls last; terminal orders
\* come by descending closingData with nulls last.
C26_ListOrder ==
  args.op = "listOrders" =>
    \A i, j \in 1..Len(ret.page) :
      i < j =>
        LET a == ret.page[i]
            b == ret.page[j]
        IN /\ ~(IsTerminal(a) /\ IsActive(b))
           /\ (IsActive(a) /\ IsActive(b))
                => /\ LadderIndex(a.statusOrder) <= LadderIndex(b.statusOrder)
                   /\ a.statusOrder = b.statusOrder
                        => /\ a.dateMeeting = Null => b.dateMeeting = Null
                           /\ (a.dateMeeting # Null /\ b.dateMeeting # Null)
                                => a.dateMeeting <= b.dateMeeting
           /\ (IsTerminal(a) /\ IsTerminal(b))
                => /\ a.closingData = Null => b.closingData = Null
                   /\ (a.closingData # Null /\ b.closingData # Null)
                        => a.closingData >= b.closingData

\* a page with two active orders of one status, the one without a meeting
\* date second, then two terminal orders, the one without a close date last
C26_Witness ==
  /\ args.op = "listOrders" /\ Len(ret.page) = 4
  /\ ret.page[1].statusOrder = "Waiting" /\ ret.page[1].dateMeeting # Null
  /\ ret.page[2].statusOrder = "Waiting" /\ ret.page[2].dateMeeting = Null
  /\ IsTerminal(ret.page[3]) /\ ret.page[3].closingData # Null
  /\ IsTerminal(ret.page[4]) /\ ret.page[4].closingData = Null

\* ------------------------------------------------- the retry loop (C27-C30)
\* request r is inside syncCashReceipt
InSync(r) == pc[r] \in {"sync_post", "sync_mark", "sync_fail"}

\* request r takes a step of syncCashReceipt
SyncStep(r) == InSync(r) /\ <<pc[r], attempt[r]>> # <<pc'[r], attempt'[r]>>

\* what is left of a run of syncCashReceipt: the attempts not yet made, then
\* the write of the mark
SyncRank(r) ==
  IF pc[r] = "sync_post" THEN 6 - attempt[r]
  ELSE IF pc[r] = "sync_mark" THEN 2
  ELSE IF pc[r] = "sync_fail" THEN 1
  ELSE 0

\* C27: a POST of a saga run is one of at most 3, is made only while no POST
\* of the run has succeeded, and is followed by another one only when it
\* failed and was not the third; every step of the run brings it nearer to
\* its end, which is the return after the sent mark or the raised failure.
C27_AtMostThreeAttempts ==
  [][\A r \in Req :
       /\ (pc[r] = "sync_post" /\ SyncStep(r)) =>
            /\ attempt[r] \in 1..3
            /\ ~posted[r]
            /\ \/ posted'[r] /\ pc'[r] = "sync_mark"
                  /\ Len(ledger') = Len(ledger) + 1
               \/ ~posted'[r] /\ ledger' = ledger /\ attempt[r] < 3
                  /\ attempt'[r] = attempt[r] + 1 /\ pc'[r] = "sync_post"
               \/ ~posted'[r] /\ ledger' = ledger /\ attempt[r] = 3
                  /\ pc'[r] = "sync_fail"
       /\ SyncStep(r) =>
            /\ SyncRank(r)' < SyncRank(r)
            /\ ~InSync(r)' =>
                 \/ sagaEnd'[r] = "sent" /\ posted[r]
                 \/ sagaEnd'[r] = "sync-error" /\ pc'[r] = "compensate"
    ]_vars

C27_Witness ==
  \E r, q \in Req :
    /\ pc[r] = "sync_fail" /\ ~posted[r]
    /\ pc[q] = "sync_mark" /\ posted[q]

\* the sum of a sequence of waits
RECURSIVE SumOf(_)
SumOf(s) == IF s = << >> THEN 0 ELSE Head(s) + SumOf(Tail(s))

\* C28: when the last attempt of a saga run fails as the ones before it, the
\* waits the run has made are 500 ms, 1 s and 2 s in that order, 3.5 s in
\* all.
C28_BackoffIsThreeAndAHalfSeconds ==
  [][\A r \in Req :
       (pc[r] = "sync_post" /\ pc'[r] = "sync_fail") =>
         delays[r] = <<500, 1000, 2000>> /\ SumOf(delays[r]) = 3500
    ]_vars

\* C29: the stored cashSubmissionStatus is the sent tag only if a POST for
\* the order has been booked by the ledger.
C29_SentOnlyAfterPost ==
  (args.op = "updateOrder" /\ ret.outcome = "success"
     /\ ret.row.cashSubmissionStatus = "Sent")
    => LedgerCount(args.id) >= 1

\* C30: a saga run whose POST was booked by the ledger neither stores the
\* sync-error mark nor writes statusOrder and closingData back.
C30_NoRollbackAfterBookedEntry ==
  \A r \in Req : posted[r] => (~markOk[r] /\ sagaEnd[r] # "compensated")


\* -------------------------------------------- compensation, notifications
\* the stored statusOrder is no longer the one request r wrote: another
\* request has committed a statusOrder since
NewerStatus(r) == orders[OrderId].statusOrder # updated[r].statusOrder

\* C31: the compensating write of a request leaves a statusOrder that another
\* request committed during the saga as it is.
C31_CompensationKeepsNewerStatus ==
  [][\A r \in Req :
       (pc[r] = "compensate" /\ Ends(r) /\ NewerStatus(r))
         => orders'[OrderId].statusOrder = orders[OrderId].statusOrder]_vars


\* the row the one write of the standalone updateOrder call stored, and the
\* data object it wrote
WrittenData == BuildUpdateData(args.dto, args.row, args.now)
WrittenRow == ApplyData(args.row, WrittenData)

SagaFailedAlone ==
  args.op = "updateOrderSaga" /\ ret.outcome = "SettlementUnavailable"

SagaFailed(r) == sagaEnd[r] \in {"sync-error", "compensated"}

\* C33: an updateOrder request whose saga failed dispatches no notification,
\* neither before its compensation nor after it.
C33_NoNotificationAfterFailedSaga ==
  \A r \in Req :
    (req[r].op = "updateOrder" /\ SagaFailed(r)) => notified[r] = {}

\* a close by updateOrder ended rolled back, with nothing dispatched, while
\* the close of another request dispatched the order-closed notification
C33_Witness ==
  \E r, q \in Req :
    /\ req[r].op = "updateOrder" /\ req[r].dto.statusOrder = "Done"
    /\ pc[r] = "done" /\ sagaEnd[r] = "compensated"
    /\ outcome[r] = "SettlementUnavailable" /\ notified[r] = {}
    /\ req[q].op = "updateOrder" /\ sagaEnd[q] = "sent"
    /\ "order-closed" \in notified[q]


\* C34: a notification of an updateOrder request is dispatched only when the
\* request's transaction has committed its write and is closed.
C34_NotificationsAfterCommit ==
  [][\A r \in Req :
       (req[r].op = "updateOrder" /\ notified'[r] # notified[r])
         => /\ ~txOpen[r]
            /\ pc[r] = "uo_notify"
            /\ updated[r] # NoRow]_vars

\* a request has dispatched its city-change notification while the
\* transaction of another request is open
C34_Witness ==
  \E r, q \in Req :
    /\ req[r].op = "updateOrder" /\ "city-change" \in notified[r]
    /\ ~txOpen[r] /\ txOpen[q]


\* ------------------------------------------------ cache, size and recency
EntriesOf(cache) == {cache[i] : i \in 1..Len(cache)}

\* call c stores its result in this step
Stores(c) == foCall[c].pc = "fo_store" /\ foCall'[c].pc = "idle"

\* C35: a store into a full cache deletes one entry, one that no other entry
\* is less recently accessed than, keeps every other entry as it is and
\* adds the new one; a hit sets the lastAccess of the entry it serves to
\* the time of the hit.
C35_EvictsLeastRecentlyAccessed ==
  [][/\ \A c \in FoCalls :
          (Stores(c) /\ Len(filterOptionsCache) >= CacheMaxSize) =>
            \E i \in 1..Len(filterOptionsCache) :
              LET old == filterOptionsCache[i]
              IN /\ \A j \in 1..Len(filterOptionsCache) :
                      filterOptionsCache[j].lastAccess >= old.lastAccess
                 /\ KeysOf(filterOptionsCache') =
                      (KeysOf(filterOptionsCache) \ {old.key})
                        \cup {foCall[c].key}
                 /\ \A e \in EntriesOf(filterOptionsCache) :
                      e.key \notin {old.key, foCall[c].key}
                        => e \in EntriesOf(filterOptionsCache')
     /\ foRet'.cached =>
          LET i == CacheIndex(filterOptionsCache', foRet'.key)
          IN i # 0 /\ filterOptionsCache'[i].lastAccess = foNow
    ]_vars

\* an entry that was hit after it was stored is still cached, while a key
\* stored no earlier and not accessed since has been evicted
C35_Witness ==
  \E i \in 1..Len(filterOptionsCache), k \in CacheKeys :
    LET e == filterOptionsCache[i]
    IN /\ foFill[e.key].filled /\ e.lastAccess > foFill[e.key].time
       /\ k # e.key /\ foFill[k].filled /\ foFill[k].evicted
       /\ foFill[k].time >= foFill[e.key].time


TransientFailures == {"timeout", "reset"}

\* C37: one call runs the query set at most three times; it runs it again
\* only after a failure with a transient signature, having waited 500 ms
\* times the number of the failed attempt; a failure without that signature
\* ends the call at once, thrown to the caller with no further run.
C37_RetriesOnlyTransientUpToThree ==
  [][\A c \in FoCalls :
       /\ foCall'[c].attempt <= 3
       /\ (foCall[c].pc = "fo_query" /\ foCall'[c].attempt # foCall[c].attempt
             /\ foCall'[c].pc # "idle") =>
            /\ foCall'[c].attempt = foCall[c].attempt + 1
            /\ foCall'[c].failure \in TransientFailures
            /\ foCall'[c].waits =
                 Append(foCall[c].waits, 500 * foCall[c].attempt)
       /\ (foCall[c].pc = "fo_query" /\ foCall'[c].pc = "idle") =>
            /\ foRet'.queries = foCall[c].attempt
            /\ foRet'.queries <= 3
            /\ foRet'.error \notin TransientFailures =>
                 foRet'.outcome = "thrown"
            /\ foRet'.error \in TransientFailures => foRet'.queries = 3
            /\ foRet'.waits = [i \in 1..(foRet'.queries - 1) |-> 500 * i]
    ]_vars

\* a call has returned rows on its third run of the queries, after a timeout
\* and a dropped connection and waits of 500 ms and 1 s
C37_Witness ==
  /\ foRet.outcome = "success" /\ foRet.queries = 3 /\ ~foRet.cached
  /\ foRet.waits = <<500, 1000>>
  /\ foRet.error = "none"


\* ------------------------------------------------ cache, invalidation
\* C38: once createOrder has invalidated the cache, a call answered from the
\* cache gets data read after the create: when the created order is within
\* the caller's scope, its rk is in the list served.
C38_NoPreCreateDataAfterInvalidation ==
  (foCreate = "done" /\ foRet.cached /\ FoWhere(foRet.user, FoNewRow))
    => FoNewRow.rk \in foRet.data["rks"]


\* ------------------------------------------------ cache, scopes
\* the rows an RBAC predicate can tell apart
ScopeRows ==
  { [id |-> 1, masterId |-> m, city |-> CityNames[i], rk |-> "rk1",
     typeEquipment |-> "tv"] : m \in {1, 2}, i \in 1..Len(CityNames) }

\* two callers' queries carry the same RBAC predicate
SamePredicate(u, v) == \A o \in ScopeRows : FoWhere(u, o) <=> FoWhere(v, o)

\* C39: a call answered from the cache gets an entry that was computed
\* under the RBAC predicate the caller's own queries would carry.
C39_ServedEntryHasCallersPredicate ==
  foRet.cached =>
    /\ foFill[foRet.key].filled
    /\ SamePredicate(foFill[foRet.key].user, foRet.user)


\* ------------------------------------------------ cash submission
\* the caller is the master assigned to the order found, the order is Done
\* and its cash is not under review
MaySubmit ==
  /\ args.id = OrderId
  /\ args.row.masterId = args.user.userId
  /\ args.row.statusOrder = "Done"
  /\ args.row.cashSubmissionStatus # "UnderReview"

====
